---- MODULE Spec2Model ----
(***************************************************************************)
(* Entity resolution and contract composition of generate_universe (go.py) *)
(*                                                                         *)
(* Text is a sequence of one-character strings, so that trimming, case     *)
(* folding, joining and splitting are computed character by character.     *)
(* An optional value (Python None, or a key missing from a dict) is the    *)
(* empty sequence; a present value x is <<x>>.                             *)
(***************************************************************************)
EXTENDS Integers, Sequences, FiniteSets, TLC

VARIABLES
    pc,               \* position of the run
    argv,             \* sys.argv[1:]
    universes,        \* get_universes(universes.json)
    spaces,           \* get_spaces(spaces.json)
    clusters,         \* get_clusters(spaces.json)
    assets,           \* get_assets(assets.json)
    tokens,           \* result of _sanitize_argv
    idx,              \* detect_mode: position of the scan in tokens
    u,                \* detect_mode: universe slot
    s,                \* detect_mode: space slot
    remaining,        \* detect_mode: residual tokens
    selected_assets,  \* resolved assets
    mode,             \* mode returned by detect_mode
    assets_count,     \* argument of attach_cluster_if_needed
    cluster,          \* cluster returned by attach_cluster_if_needed
    variation,        \* variation returned by attach_cluster_if_needed
    prompt,           \* value built by a generate_prompt_* composer
    output,           \* content of OUTPUT_FILE
    warnings,         \* tokens reported by "Ativo nao encontrado"
    exit_code,        \* how the run ended
    raw,              \* a parsed JSON value given to a normalizer or to _value_to_text
    kind,             \* which function is applied to raw
    result            \* what that function returned

vars == <<pc, argv, universes, spaces, clusters, assets, tokens, idx, u, s,
          remaining, selected_assets, mode, assets_count, cluster, variation,
          prompt, output, warnings, exit_code, raw, kind, result>>

(***************************************************************************)
(* Bounds                                                                  *)
(***************************************************************************)
MaxArgs == 2          \* arguments on a command line of a run of main
MaxAssets == 2        \* assets in assets.json
MaxArgLen == 2        \* characters of one argument given to _sanitize_argv
MaxSanArgs == 2       \* arguments given to _sanitize_argv
MaxCount == 3         \* assets_count given to attach_cluster_if_needed
MaxTokens == 3        \* tokens given to resolve_assets
MaxBoundClusters == 2 \* clusters given to attach_cluster_if_needed
MaxResolveAssets == 2 \* assets given to resolve_assets

(***************************************************************************)
(* Optional values and dicts                                               *)
(***************************************************************************)
None == <<>>

Some(x) == <<x>>

\* d.get(key, default) on a field that is None or <<value>>
Get(field, default) == IF field = None THEN default ELSE field[1]

Min(S) == CHOOSE m \in S : \A n \in S : m <= n

SeqsUpTo(S, n) == UNION {[1..k -> S] : k \in 0..n}

(***************************************************************************)
(* Text                                                                    *)
(***************************************************************************)
\* str.strip() and str.split() treat every whitespace character alike
IsSpace(c) == c \in {" ", "\t", "\n"}

LowerChar(c) ==
    CASE c = "A" -> "a"
      [] c = "B" -> "b"
      [] c = "C" -> "c"
      [] c = "D" -> "d"
      [] c = "S" -> "s"
      [] c = "U" -> "u"
      [] c = "X" -> "x"
      [] c = "Z" -> "z"
      [] OTHER -> c

lower(str) == [i \in 1..Len(str) |-> LowerChar(str[i])]

RECURSIVE lstrip(_)
lstrip(str) ==
    IF str # <<>> /\ IsSpace(Head(str)) THEN lstrip(Tail(str)) ELSE str

RECURSIVE rstrip(_)
rstrip(str) ==
    IF str # <<>> /\ IsSpace(str[Len(str)])
    THEN rstrip(SubSeq(str, 1, Len(str) - 1))
    ELSE str

strip(str) == rstrip(lstrip(str))

_norm(str) == lower(strip(str))

(***************************************************************************)
(* _sanitize_argv                                                          *)
(***************************************************************************)
\* " ".join(argv)
RECURSIVE join(_)
join(args) ==
    IF args = <<>> THEN <<>>
    ELSE IF Len(args) = 1 THEN args[1]
    ELSE args[1] \o <<" ">> \o join(Tail(args))

\* variant: "+" is left in the text
replace_plus_kept(str) == str

\* joined.replace("+", " ")
replace_plus(str) == [i \in 1..Len(str) |-> IF str[i] = "+" THEN " " ELSE str[i]]

\* str.split(): the maximal runs of non-whitespace characters
RECURSIVE split_ws(_, _, _)
split_ws(str, cur, out) ==
    IF str = <<>> THEN (IF cur = <<>> THEN out ELSE Append(out, cur))
    ELSE IF IsSpace(Head(str))
         THEN split_ws(Tail(str), <<>>, IF cur = <<>> THEN out ELSE Append(out, cur))
         ELSE split_ws(Tail(str), Append(cur, Head(str)), out)

\* chunk.split(","): every piece between commas, the empty ones included
RECURSIVE split_comma(_, _, _)
split_comma(str, cur, out) ==
    IF str = <<>> THEN Append(out, cur)
    ELSE IF Head(str) = ","
         THEN split_comma(Tail(str), <<>>, Append(out, cur))
         ELSE split_comma(Tail(str), Append(cur, Head(str)), out)

\* [x.strip() for x in chunk.split(",") if x.strip()]
RECURSIVE strip_nonempty(_)
strip_nonempty(pieces) ==
    IF pieces = <<>> THEN <<>>
    ELSE IF strip(Head(pieces)) # <<>>
         THEN <<strip(Head(pieces))>> \o strip_nonempty(Tail(pieces))
         ELSE strip_nonempty(Tail(pieces))

RECURSIVE extend_parts(_)
extend_parts(chunks) ==
    IF chunks = <<>> THEN <<>>
    ELSE strip_nonempty(split_comma(Head(chunks), <<>>, <<>>))
         \o extend_parts(Tail(chunks))

_sanitize_argv(args) ==
    LET joined == strip(join(args))
    IN  IF joined = <<>> THEN <<>>
        ELSE extend_parts(split_ws(replace_plus(joined), <<>>, <<>>))

(***************************************************************************)
(* Resolvers                                                               *)
(***************************************************************************)
\* Python truth value of a dict: false only for the empty dict
universe_truthy(rec) == rec.id # None \/ rec.name # None

space_truthy(rec) == rec.id # None \/ rec.name # None \/ rec.cluster_binding # None

cluster_truthy(rec) == rec.cluster_id # None \/ rec.name # None \/ rec.variations # None

asset_truthy(rec) == rec.asset_id # None \/ rec.nome # None \/ rec.sobrenome # None

resolve_space(spaceList, token) ==
    LET t == _norm(token)
        hits == {i \in 1..Len(spaceList) :
                    \/ _norm(Get(spaceList[i].id, <<>>)) = t
                    \/ _norm(Get(spaceList[i].name, <<>>)) = t}
    IN  IF hits = {} THEN None ELSE Some(spaceList[Min(hits)])

resolve_universe(universeList, token) ==
    LET t == _norm(token)
        hits == {i \in 1..Len(universeList) :
                    \/ _norm(Get(universeList[i].id, <<>>)) = t
                    \/ _norm(Get(universeList[i].name, <<>>)) = t}
    IN  IF hits = {} THEN None ELSE Some(universeList[Min(hits)])

resolve_cluster(clusterList, cluster_id) ==
    LET t == _norm(cluster_id)
        hits == {i \in 1..Len(clusterList) :
                    _norm(Get(clusterList[i].cluster_id, <<>>)) = t}
    IN  IF hits = {} THEN None ELSE Some(clusterList[Min(hits)])

\* aid and full of the inner loop of resolve_assets
asset_aid(a) == _norm(Get(a.asset_id, <<>>))

asset_full(a) == _norm(strip(Get(a.nome, <<>>) \o <<" ">> \o Get(a.sobrenome, <<>>)))

\* the inner loop of resolve_assets: first asset matching the token
find_asset(assetList, tok) ==
    LET t == _norm(tok)
        hits == {i \in 1..Len(assetList) :
                    t = asset_aid(assetList[i]) \/ t = asset_full(assetList[i])}
    IN  IF hits = {} THEN None ELSE Some(assetList[Min(hits)])

\* variant: the key is the full name, the asset_id is not looked at
asset_key_full(a) == _norm(asset_full(a))

\* key = _norm(str(found.get("asset_id", "")) or full)
asset_key(a) ==
    _norm(IF Get(a.asset_id, <<>>) # <<>> THEN Get(a.asset_id, <<>>) ELSE asset_full(a))

RECURSIVE resolve_assets_loop(_, _, _, _, _)
resolve_assets_loop(assetList, toks, resolved, seen, warned) ==
    IF toks = <<>> THEN [resolved |-> resolved, warnings |-> warned]
    ELSE LET tok == Head(toks)
             found == find_asset(assetList, tok)
         IN  IF found # None /\ asset_truthy(found[1])
             THEN IF asset_key(found[1]) \notin seen
                  THEN resolve_assets_loop(assetList, Tail(toks),
                                           Append(resolved, found[1]),
                                           seen \cup {asset_key(found[1])}, warned)
                  ELSE resolve_assets_loop(assetList, Tail(toks), resolved, seen, warned)
             ELSE resolve_assets_loop(assetList, Tail(toks), resolved, seen,
                                      Append(warned, tok))

resolve_assets(assetList, toks) == resolve_assets_loop(assetList, toks, <<>>, {}, <<>>)

(***************************************************************************)
(* Cluster attachment                                                      *)
(***************************************************************************)
\* variant: the missing cluster is fatal only when the contract is inherited
attach_cluster_inherited_only(space, clusterList, count) ==
    LET binding == space.cluster_binding
        NoCluster == [fatal |-> FALSE, cluster |-> None, variation |-> None]
    IN  IF binding = None THEN NoCluster
        ELSE LET cluster_id == strip(Get(binding[1].cluster_id, <<>>))
                 inherits == binding[1].inherits_contract
                 requires == binding[1].requires_cluster_validation
                 found == resolve_cluster(clusterList, cluster_id)
                 missing == found = None \/ ~cluster_truthy(found[1])
             IN  IF cluster_id = <<>> THEN NoCluster
                 ELSE IF missing /\ requires /\ inherits
                      THEN [fatal |-> TRUE, cluster |-> None, variation |-> None]
                 ELSE IF missing \/ ~inherits
                      THEN [fatal |-> FALSE, cluster |-> found, variation |-> None]
                 ELSE IF count >= 2
                      THEN [fatal |-> FALSE, cluster |-> found, variation |-> Some("duo")]
                 ELSE [fatal |-> FALSE, cluster |-> found, variation |-> Some("solo")]

\* variant: "duo" from three assets on
attach_cluster_duo_from_three(space, clusterList, count) ==
    LET binding == space.cluster_binding
        NoCluster == [fatal |-> FALSE, cluster |-> None, variation |-> None]
    IN  IF binding = None THEN NoCluster
        ELSE LET cluster_id == strip(Get(binding[1].cluster_id, <<>>))
                 inherits == binding[1].inherits_contract
                 requires == binding[1].requires_cluster_validation
                 found == resolve_cluster(clusterList, cluster_id)
                 missing == found = None \/ ~cluster_truthy(found[1])
             IN  IF cluster_id = <<>> THEN NoCluster
                 ELSE IF missing /\ requires
                      THEN [fatal |-> TRUE, cluster |-> None, variation |-> None]
                 ELSE IF missing \/ ~inherits
                      THEN [fatal |-> FALSE, cluster |-> found, variation |-> None]
                 ELSE IF count > 2
                      THEN [fatal |-> FALSE, cluster |-> found, variation |-> Some("duo")]
                 ELSE [fatal |-> FALSE, cluster |-> found, variation |-> Some("solo")]

\* variant: the validation flag is read before the cluster_id is looked at
attach_cluster_flag_first(space, clusterList, count) ==
    LET binding == space.cluster_binding
        NoCluster == [fatal |-> FALSE, cluster |-> None, variation |-> None]
    IN  IF binding = None THEN NoCluster
        ELSE LET cluster_id == strip(Get(binding[1].cluster_id, <<>>))
                 inherits == binding[1].inherits_contract
                 requires == binding[1].requires_cluster_validation
                 found == IF cluster_id = <<>> THEN None
                          ELSE resolve_cluster(clusterList, cluster_id)
                 missing == found = None \/ ~cluster_truthy(found[1])
             IN  IF missing /\ requires
                 THEN [fatal |-> TRUE, cluster |-> None, variation |-> None]
                 ELSE IF cluster_id = <<>> THEN NoCluster
                 ELSE IF missing \/ ~inherits
                      THEN [fatal |-> FALSE, cluster |-> found, variation |-> None]
                 ELSE IF count >= 2
                      THEN [fatal |-> FALSE, cluster |-> found, variation |-> Some("duo")]
                 ELSE [fatal |-> FALSE, cluster |-> found, variation |-> Some("solo")]

\* variant: a missing required cluster degrades to "no cluster"
attach_cluster_soft(space, clusterList, count) ==
    LET binding == space.cluster_binding
        NoCluster == [fatal |-> FALSE, cluster |-> None, variation |-> None]
    IN  IF binding = None THEN NoCluster
        ELSE LET cluster_id == strip(Get(binding[1].cluster_id, <<>>))
                 inherits == binding[1].inherits_contract
                 found == resolve_cluster(clusterList, cluster_id)
                 missing == found = None \/ ~cluster_truthy(found[1])
             IN  IF cluster_id = <<>> THEN NoCluster
                 ELSE IF missing \/ ~inherits
                      THEN [fatal |-> FALSE, cluster |-> found, variation |-> None]
                 ELSE IF count >= 2
                      THEN [fatal |-> FALSE, cluster |-> found, variation |-> Some("duo")]
                 ELSE [fatal |-> FALSE, cluster |-> found, variation |-> Some("solo")]

attach_cluster_if_needed(space, clusterList, count) ==
    LET binding == space.cluster_binding
        NoCluster == [fatal |-> FALSE, cluster |-> None, variation |-> None]
    IN  IF binding = None THEN NoCluster
        ELSE LET cluster_id == strip(Get(binding[1].cluster_id, <<>>))
                 inherits == binding[1].inherits_contract
                 requires == binding[1].requires_cluster_validation
                 found == resolve_cluster(clusterList, cluster_id)
                 missing == found = None \/ ~cluster_truthy(found[1])
             IN  IF cluster_id = <<>> THEN NoCluster
                 ELSE IF missing /\ requires
                      THEN [fatal |-> TRUE, cluster |-> None, variation |-> None]
                 ELSE IF missing \/ ~inherits
                      THEN [fatal |-> FALSE, cluster |-> found, variation |-> None]
                 ELSE IF count >= 2
                      THEN [fatal |-> FALSE, cluster |-> found, variation |-> Some("duo")]
                 ELSE [fatal |-> FALSE, cluster |-> found, variation |-> Some("solo")]

(***************************************************************************)
(* Mode detection                                                          *)
(***************************************************************************)
\* variant: the space slot is rebound by every later token that matches a space
scan_token_rebind(universeList, spaceList, st, t) ==
    LET u_try == IF st.u = None THEN resolve_universe(universeList, t) ELSE None
        s_try == resolve_space(spaceList, t)
    IN  IF st.u = None /\ u_try # None /\ universe_truthy(u_try[1])
        THEN [st EXCEPT !.u = u_try]
        ELSE IF s_try # None /\ space_truthy(s_try[1])
        THEN [st EXCEPT !.s = s_try]
        ELSE [st EXCEPT !.remaining = Append(@, t)]

\* variant: once the universe slot is filled, every later token is residual
scan_token_after_universe(universeList, spaceList, st, t) ==
    LET u_try == IF st.u = None THEN resolve_universe(universeList, t) ELSE None
        s_try == IF st.s = None THEN resolve_space(spaceList, t) ELSE None
    IN  IF st.u = None /\ u_try # None /\ universe_truthy(u_try[1])
        THEN [st EXCEPT !.u = u_try]
        ELSE IF st.u = None /\ st.s = None /\ s_try # None /\ space_truthy(s_try[1])
        THEN [st EXCEPT !.s = s_try]
        ELSE [st EXCEPT !.remaining = Append(@, t)]

\* one iteration of the scan of detect_mode over the slots (u, s, remaining)
scan_token(universeList, spaceList, st, t) ==
    LET u_try == IF st.u = None THEN resolve_universe(universeList, t) ELSE None
        s_try == IF st.s = None THEN resolve_space(spaceList, t) ELSE None
    IN  IF st.u = None /\ u_try # None /\ universe_truthy(u_try[1])
        THEN [st EXCEPT !.u = u_try]
        ELSE IF st.s = None /\ s_try # None /\ space_truthy(s_try[1])
        THEN [st EXCEPT !.s = s_try]
        ELSE [st EXCEPT !.remaining = Append(@, t)]

\* variant: a bound universe or space with residual tokens is an asset mode,
\* whether or not an asset was resolved
decide_mode_by_slots(uu, ss, selected) ==
    LET hasU == uu # None /\ universe_truthy(uu[1])
        hasS == ss # None /\ space_truthy(ss[1])
    IN  IF hasU /\ ~hasS
        THEN [mode |-> "universe_assets", u |-> uu, s |-> None, assets |-> selected]
        ELSE IF hasS /\ ~hasU
        THEN [mode |-> "space_assets", u |-> None, s |-> ss, assets |-> selected]
        ELSE IF ~hasU /\ ~hasS /\ selected # <<>>
        THEN [mode |-> "assets_only", u |-> None, s |-> None, assets |-> selected]
        ELSE [mode |-> "invalid", u |-> uu, s |-> ss, assets |-> selected]

\* variant: assets_only needs two assets or more
decide_mode_pair(uu, ss, selected) ==
    LET hasU == uu # None /\ universe_truthy(uu[1])
        hasS == ss # None /\ space_truthy(ss[1])
    IN  IF hasU /\ ~hasS
        THEN IF selected # <<>>
             THEN [mode |-> "universe_assets", u |-> uu, s |-> None, assets |-> selected]
             ELSE [mode |-> "universe_only", u |-> uu, s |-> None, assets |-> <<>>]
        ELSE IF hasS /\ ~hasU
        THEN IF selected # <<>>
             THEN [mode |-> "space_assets", u |-> None, s |-> ss, assets |-> selected]
             ELSE [mode |-> "space_only", u |-> None, s |-> ss, assets |-> <<>>]
        ELSE IF ~hasU /\ ~hasS /\ Len(selected) >= 2
        THEN [mode |-> "assets_only", u |-> None, s |-> None, assets |-> selected]
        ELSE [mode |-> "invalid", u |-> uu, s |-> ss, assets |-> selected]

\* the final decision of detect_mode: (mode, u, s, selected_assets)
decide_mode(uu, ss, selected) ==
    LET hasU == uu # None /\ universe_truthy(uu[1])
        hasS == ss # None /\ space_truthy(ss[1])
    IN  IF hasU /\ ~hasS
        THEN IF selected # <<>>
             THEN [mode |-> "universe_assets", u |-> uu, s |-> None, assets |-> selected]
             ELSE [mode |-> "universe_only", u |-> uu, s |-> None, assets |-> <<>>]
        ELSE IF hasS /\ ~hasU
        THEN IF selected # <<>>
             THEN [mode |-> "space_assets", u |-> None, s |-> ss, assets |-> selected]
             ELSE [mode |-> "space_only", u |-> None, s |-> ss, assets |-> <<>>]
        ELSE IF ~hasU /\ ~hasS /\ selected # <<>>
        THEN [mode |-> "assets_only", u |-> None, s |-> None, assets |-> selected]
        ELSE [mode |-> "invalid", u |-> uu, s |-> ss, assets |-> selected]

RECURSIVE scan_tokens(_, _, _, _)
scan_tokens(universeList, spaceList, st, toks) ==
    IF toks = <<>> THEN st
    ELSE scan_tokens(universeList, spaceList,
                     scan_token(universeList, spaceList, st, Head(toks)), Tail(toks))

\* detect_mode as a function of its four arguments
detect_mode(universeList, spaceList, assetList, toks) ==
    IF toks = <<>>
    THEN [mode |-> "list", u |-> None, s |-> None, assets |-> <<>>]
    ELSE LET st == scan_tokens(universeList, spaceList,
                               [u |-> None, s |-> None, remaining |-> <<>>], toks)
             selected == IF st.remaining # <<>>
                         THEN resolve_assets(assetList, st.remaining).resolved
                         ELSE <<>>
         IN  decide_mode(st.u, st.s, selected)

(***************************************************************************)
(* Prompt composers: the prompt is identified by the composer that built   *)
(* it and the entities it was given                                        *)
(***************************************************************************)
generate_prompt_universe_only(uu) ==
    [composer |-> "universe_only", u |-> uu, s |-> None, cluster |-> None,
     variation |-> None, assets |-> <<>>]

generate_prompt_space_only(ss, cl, var) ==
    [composer |-> "space_only", u |-> None, s |-> ss, cluster |-> cl,
     variation |-> var, assets |-> <<>>]

generate_prompt_assets_only(selected) ==
    [composer |-> "assets_only", u |-> None, s |-> None, cluster |-> None,
     variation |-> None, assets |-> selected]

generate_prompt_universe_with_assets(uu, selected) ==
    [composer |-> "universe_with_assets", u |-> uu, s |-> None, cluster |-> None,
     variation |-> None, assets |-> selected]

generate_prompt_space_with_assets(ss, cl, var, selected) ==
    [composer |-> "space_with_assets", u |-> None, s |-> ss, cluster |-> cl,
     variation |-> var, assets |-> selected]

(***************************************************************************)
(* Data of the runs of main                                                *)
(***************************************************************************)
Universe1 == [id |-> Some(<<"U">>), name |-> Some(<<"a">>)]

Universe2 == [id |-> None, name |-> Some(<<" ", "u">>)]

UniverseLists == { <<>>, <<Universe1>>, <<Universe2, Universe1>> }

\* a space that requires its cluster, and whose name is the id of Universe1
Space1 ==
    [id |-> Some(<<"s">>), name |-> Some(<<"u">>),
     cluster_binding |-> Some([cluster_id |-> Some(<<" ", "C">>),
                               inherits_contract |-> TRUE,
                               requires_cluster_validation |-> TRUE])]

Space2 == [id |-> Some(<<"S">>), name |-> None, cluster_binding |-> None]

SpaceLists == { <<>>, <<Space1>>, <<Space2>>, <<Space2, Space1>> }

Cluster1 ==
    [cluster_id |-> Some(<<"c">>), name |-> Some(<<"d">>),
     variations |-> Some(<<"solo", "duo">>)]

ClusterLists == { <<>>, <<Cluster1>> }

AssetPool ==
    { [asset_id |-> Some(<<"A">>), nome |-> Some(<<"z">>), sobrenome |-> None],
      [asset_id |-> None, nome |-> Some(<<"b">>), sobrenome |-> None] }

ArgPool ==
    { <<"U">>, <<"s">>, <<"B", ",", "a">>, <<"+">>, <<"q">> }

(***************************************************************************)
(* main                                                                    *)
(***************************************************************************)
Init ==
    /\ pc = "main"
    /\ argv \in SeqsUpTo(ArgPool, MaxArgs)
    /\ universes \in UniverseLists
    /\ spaces \in SpaceLists
    /\ clusters \in ClusterLists
    /\ assets \in SeqsUpTo(AssetPool, MaxAssets)
    /\ tokens = <<>>
    /\ idx = 1
    /\ u = None
    /\ s = None
    /\ remaining = <<>>
    /\ selected_assets = <<>>
    /\ mode = "unset"
    /\ assets_count = 0
    /\ cluster = None
    /\ variation = None
    /\ prompt = None
    /\ output = None
    /\ warnings = <<>>
    /\ exit_code = "running"
    /\ raw = None
    /\ kind = "none"
    /\ result = None

\* len(sys.argv) == 1: the dashboard is printed and main returns
Dashboard ==
    /\ pc = "main"
    /\ argv = <<>>
    /\ pc' = "done"
    /\ exit_code' = "dashboard"
    /\ UNCHANGED <<raw, kind, result>>
    /\ UNCHANGED <<argv, universes, spaces, clusters, assets, tokens, idx, u, s,
                   remaining, selected_assets, mode, assets_count, cluster,
                   variation, prompt, output, warnings>>

Sanitize ==
    /\ pc = "main"
    /\ argv # <<>>
    /\ tokens' = _sanitize_argv(argv)
    /\ pc' = "detect_mode"
    /\ UNCHANGED <<raw, kind, result>>
    /\ UNCHANGED <<argv, universes, spaces, clusters, assets, idx, u, s,
                   remaining, selected_assets, mode, assets_count, cluster,
                   variation, prompt, output, warnings, exit_code>>

\* detect_mode: if not tokens: return ("list", None, None, [])
DetectList ==
    /\ pc = "detect_mode"
    /\ tokens = <<>>
    /\ mode' = "list"
    /\ pc' = "dispatch"
    /\ UNCHANGED <<raw, kind, result>>
    /\ UNCHANGED <<argv, universes, spaces, clusters, assets, tokens, idx, u, s,
                   remaining, selected_assets, assets_count, cluster,
                   variation, prompt, output, warnings, exit_code>>

\* detect_mode: one iteration of "for t in tokens"
ScanToken ==
    /\ pc = "detect_mode"
    /\ tokens # <<>>
    /\ idx <= Len(tokens)
    /\ LET st == scan_token(universes, spaces,
                            [u |-> u, s |-> s, remaining |-> remaining], tokens[idx])
       IN  /\ u' = st.u
           /\ s' = st.s
           /\ remaining' = st.remaining
    /\ idx' = idx + 1
    /\ UNCHANGED <<raw, kind, result>>
    /\ UNCHANGED <<pc, argv, universes, spaces, clusters, assets, tokens,
                   selected_assets, mode, assets_count, cluster,
                   variation, prompt, output, warnings, exit_code>>

\* detect_mode: selected_assets = resolve_assets(assets, remaining) if remaining else []
ResolveRemaining ==
    /\ pc = "detect_mode"
    /\ tokens # <<>>
    /\ idx > Len(tokens)
    /\ LET r == resolve_assets(assets, remaining)
       IN  IF remaining # <<>>
           THEN selected_assets' = r.resolved /\ warnings' = r.warnings
           ELSE selected_assets' = <<>> /\ warnings' = <<>>
    /\ pc' = "decide"
    /\ UNCHANGED <<raw, kind, result>>
    /\ UNCHANGED <<argv, universes, spaces, clusters, assets, tokens, idx, u, s,
                   remaining, mode, assets_count, cluster,
                   variation, prompt, output, exit_code>>

\* detect_mode: the final decision, unpacked by main into mode, u, s, selected_assets
Decide ==
    /\ pc = "decide"
    /\ LET r == decide_mode(u, s, selected_assets)
       IN  /\ mode' = r.mode
           /\ u' = r.u
           /\ s' = r.s
           /\ selected_assets' = r.assets
    /\ pc' = "dispatch"
    /\ UNCHANGED <<raw, kind, result>>
    /\ UNCHANGED <<argv, universes, spaces, clusters, assets, tokens, idx,
                   remaining, assets_count, cluster,
                   variation, prompt, output, warnings, exit_code>>

\* the if / elif chain of main: the branch taken for (mode, u, s)
main_branch(m, uu, ss) ==
    IF m = "universe_only" /\ uu # None /\ universe_truthy(uu[1]) THEN "universe_only"
    ELSE IF m = "space_only" /\ ss # None /\ space_truthy(ss[1]) THEN "space_only"
    ELSE IF m = "assets_only" THEN "assets_only"
    ELSE IF m = "universe_assets" /\ uu # None /\ universe_truthy(uu[1]) THEN "universe_assets"
    ELSE IF m = "space_assets" /\ ss # None /\ space_truthy(ss[1]) THEN "space_assets"
    ELSE "usage"

MainUniverseOnly ==
    /\ pc = "dispatch"
    /\ main_branch(mode, u, s) = "universe_only"
    /\ prompt' = Some(generate_prompt_universe_only(u))
    /\ pc' = "save"
    /\ UNCHANGED <<raw, kind, result>>
    /\ UNCHANGED <<argv, universes, spaces, clusters, assets, tokens, idx, u, s,
                   remaining, selected_assets, mode, assets_count, cluster,
                   variation, output, warnings, exit_code>>

\* the call attach_cluster_if_needed(s, clusters, assets_count=0)
MainSpaceOnly ==
    /\ pc = "dispatch"
    /\ main_branch(mode, u, s) = "space_only"
    /\ assets_count' = 0
    /\ pc' = "attach"
    /\ UNCHANGED <<raw, kind, result>>
    /\ UNCHANGED <<argv, universes, spaces, clusters, assets, tokens, idx, u, s,
                   remaining, selected_assets, mode, cluster,
                   variation, prompt, output, warnings, exit_code>>

MainAssetsOnly ==
    /\ pc = "dispatch"
    /\ main_branch(mode, u, s) = "assets_only"
    /\ IF selected_assets = <<>>
       THEN /\ exit_code' = "no_valid_asset"
            /\ pc' = "exit"
            /\ UNCHANGED prompt
       ELSE /\ prompt' = Some(generate_prompt_assets_only(selected_assets))
            /\ pc' = "save"
            /\ UNCHANGED exit_code
    /\ UNCHANGED <<raw, kind, result>>
    /\ UNCHANGED <<argv, universes, spaces, clusters, assets, tokens, idx, u, s,
                   remaining, selected_assets, mode, assets_count, cluster,
                   variation, output, warnings>>

MainUniverseAssets ==
    /\ pc = "dispatch"
    /\ main_branch(mode, u, s) = "universe_assets"
    /\ IF selected_assets = <<>>
       THEN /\ exit_code' = "no_valid_asset_universe"
            /\ pc' = "exit"
            /\ UNCHANGED prompt
       ELSE /\ prompt' = Some(generate_prompt_universe_with_assets(u, selected_assets))
            /\ pc' = "save"
            /\ UNCHANGED exit_code
    /\ UNCHANGED <<raw, kind, result>>
    /\ UNCHANGED <<argv, universes, spaces, clusters, assets, tokens, idx, u, s,
                   remaining, selected_assets, mode, assets_count, cluster,
                   variation, output, warnings>>

\* down to the call attach_cluster_if_needed(s, clusters, len(selected_assets))
MainSpaceAssets ==
    /\ pc = "dispatch"
    /\ main_branch(mode, u, s) = "space_assets"
    /\ IF selected_assets = <<>>
       THEN /\ exit_code' = "no_valid_asset_space"
            /\ pc' = "exit"
            /\ UNCHANGED assets_count
       ELSE /\ assets_count' = Len(selected_assets)
            /\ pc' = "attach"
            /\ UNCHANGED exit_code
    /\ UNCHANGED <<raw, kind, result>>
    /\ UNCHANGED <<argv, universes, spaces, clusters, assets, tokens, idx, u, s,
                   remaining, selected_assets, mode, cluster,
                   variation, prompt, output, warnings>>

\* the else branch: "Uso invalido." and sys.exit(1)
MainInvalid ==
    /\ pc = "dispatch"
    /\ main_branch(mode, u, s) = "usage"
    /\ exit_code' = "usage"
    /\ pc' = "exit"
    /\ UNCHANGED <<raw, kind, result>>
    /\ UNCHANGED <<argv, universes, spaces, clusters, assets, tokens, idx, u, s,
                   remaining, selected_assets, mode, assets_count, cluster,
                   variation, prompt, output, warnings>>

\* attach_cluster_if_needed called by main: returns, or sys.exit(1)
AttachCluster ==
    /\ pc = "attach"
    /\ LET r == attach_cluster_if_needed(s[1], clusters, assets_count)
       IN  IF r.fatal
           THEN /\ exit_code' = "missing_cluster"
                /\ pc' = "exit"
                /\ UNCHANGED <<cluster, variation>>
           ELSE /\ cluster' = r.cluster
                /\ variation' = r.variation
                /\ pc' = "compose_space"
                /\ UNCHANGED exit_code
    /\ UNCHANGED <<raw, kind, result>>
    /\ UNCHANGED <<argv, universes, spaces, clusters, assets, tokens, idx, u, s,
                   remaining, selected_assets, mode, assets_count,
                   prompt, output, warnings>>

\* generate_prompt_space_only / generate_prompt_space_with_assets after the attachment
ComposeSpace ==
    /\ pc = "compose_space"
    /\ prompt' = IF mode = "space_only"
                 THEN Some(generate_prompt_space_only(s, cluster, variation))
                 ELSE Some(generate_prompt_space_with_assets(s, cluster, variation,
                                                             selected_assets))
    /\ pc' = "save"
    /\ UNCHANGED <<raw, kind, result>>
    /\ UNCHANGED <<argv, universes, spaces, clusters, assets, tokens, idx, u, s,
                   remaining, selected_assets, mode, assets_count, cluster,
                   variation, output, warnings, exit_code>>

\* OUTPUT_FILE.write_text(prompt), then the pager
SavePrompt ==
    /\ pc = "save"
    /\ output' = prompt
    /\ exit_code' = "ok"
    /\ pc' = "done"
    /\ UNCHANGED <<raw, kind, result>>
    /\ UNCHANGED <<argv, universes, spaces, clusters, assets, tokens, idx, u, s,
                   remaining, selected_assets, mode, assets_count, cluster,
                   variation, prompt, warnings>>

Next ==
    \/ Dashboard
    \/ Sanitize
    \/ DetectList
    \/ ScanToken
    \/ ResolveRemaining
    \/ Decide
    \/ MainUniverseOnly
    \/ MainSpaceOnly
    \/ MainAssetsOnly
    \/ MainUniverseAssets
    \/ MainSpaceAssets
    \/ MainInvalid
    \/ AttachCluster
    \/ ComposeSpace
    \/ SavePrompt

Spec == Init /\ [][Next]_vars

(***************************************************************************)
(* Requests, described from the token list and the data alone              *)
(***************************************************************************)
SameText(a, b) == lower(strip(a)) = lower(strip(b))

MatchesUniverse(t) ==
    \E i \in 1..Len(universes) :
        \/ SameText(Get(universes[i].id, <<>>), t)
        \/ SameText(Get(universes[i].name, <<>>), t)

MatchesSpace(t) ==
    \E i \in 1..Len(spaces) :
        \/ SameText(Get(spaces[i].id, <<>>), t)
        \/ SameText(Get(spaces[i].name, <<>>), t)

MatchesAsset(t) ==
    \E i \in 1..Len(assets) :
        \/ SameText(Get(assets[i].asset_id, <<>>), t)
        \/ SameText(strip(Get(assets[i].nome, <<>>) \o <<" ">> \o Get(assets[i].sobrenome, <<>>)), t)

\* index of the token that binds the universe: the first one matching a universe (0: none)
UniverseIdx ==
    LET I == {i \in 1..Len(tokens) : MatchesUniverse(tokens[i])}
    IN  IF I = {} THEN 0 ELSE Min(I)

\* index of the token that binds the space: the first other one matching a space (0: none)
SpaceIdx ==
    LET I == {i \in 1..Len(tokens) : i # UniverseIdx /\ MatchesSpace(tokens[i])}
    IN  IF I = {} THEN 0 ELSE Min(I)

\* the elements of seq at the indices I, in order
SubSeqAt(seq, I) ==
    [k \in 1..Cardinality(I) |->
        seq[CHOOSE i \in I : Cardinality({j \in I : j <= i}) = k]]

ResidualIdx == (1..Len(tokens)) \ {UniverseIdx, SpaceIdx}

Residual == SubSeqAt(tokens, ResidualIdx)

AssetResolved == \E i \in ResidualIdx : MatchesAsset(tokens[i])

ModeTable(noTokens, uBound, sBound, assetResolved) ==
    IF noTokens THEN "list"
    ELSE IF uBound /\ ~sBound
         THEN (IF assetResolved THEN "universe_assets" ELSE "universe_only")
    ELSE IF sBound /\ ~uBound
         THEN (IF assetResolved THEN "space_assets" ELSE "space_only")
    ELSE IF ~uBound /\ ~sBound /\ assetResolved THEN "assets_only"
    ELSE "invalid"

Returned == mode # "unset"

(***************************************************************************)
(* C1: whatever the universes, spaces, assets and tokens, the mode         *)
(* returned by detect_mode is the one the table gives for (no tokens,      *)
(* universe bound, space bound, at least one residual asset resolved),     *)
(* and the slots and assets returned agree with the same three facts.      *)
(***************************************************************************)
C1_ModeTable ==
    Returned =>
        /\ mode = ModeTable(tokens = <<>>, UniverseIdx # 0, SpaceIdx # 0, AssetResolved)
        /\ (u # None) = (UniverseIdx # 0)
        /\ (s # None) = (SpaceIdx # 0)
        /\ (selected_assets # <<>>) = AssetResolved

\* a single resolved asset, nothing else bound: assets_only
C1_Witness ==
    /\ Returned
    /\ mode = "assets_only"
    /\ Len(selected_assets) = 1
    /\ Len(tokens) >= 2

(***************************************************************************)
(* C2: the scan takes the tokens one by one in input order; a token is     *)
(* tried as a universe only while the universe slot is empty, as a space   *)
(* only while the space slot is empty and it has not just filled the       *)
(* universe slot; a filled slot is never rebound; every other token is     *)
(* appended to the residual list, and the assets are resolved from the     *)
(* residual list only.                                                     *)
(***************************************************************************)
Scanning == pc = "detect_mode" /\ tokens # <<>> /\ idx <= Len(tokens)

C2_ScanStep ==
    Scanning =>
        /\ idx' = idx + 1
        /\ IF u = None /\ MatchesUniverse(tokens[idx])
           THEN /\ u' # None
                /\ SameText(Get(u'[1].id, <<>>), tokens[idx])
                      \/ SameText(Get(u'[1].name, <<>>), tokens[idx])
                /\ s' = s
                /\ remaining' = remaining
           ELSE IF s = None /\ MatchesSpace(tokens[idx])
           THEN /\ s' # None
                /\ SameText(Get(s'[1].id, <<>>), tokens[idx])
                      \/ SameText(Get(s'[1].name, <<>>), tokens[idx])
                /\ u' = u
                /\ remaining' = remaining
           ELSE /\ remaining' = Append(remaining, tokens[idx])
                /\ u' = u
                /\ s' = s

C2_SlotsKept == (u # None => u' = u) /\ (s # None => s' = s)

C2_ResidualOnly ==
    Returned /\ tokens # <<>> =>
        /\ remaining = Residual
        /\ \A i \in 1..Len(selected_assets) :
              \E j \in 1..Len(remaining) :
                  \/ SameText(Get(selected_assets[i].asset_id, <<>>), remaining[j])
                  \/ SameText(strip(Get(selected_assets[i].nome, <<>>) \o <<" ">>
                                    \o Get(selected_assets[i].sobrenome, <<>>)),
                              remaining[j])

C2_SinglePassSlots == [][C2_ScanStep /\ C2_SlotsKept]_vars /\ []C2_ResidualOnly

\* a token that matches a universe went to the residual list: the slot was taken
C2_Witness ==
    /\ Returned
    /\ u # None
    /\ \E j \in 1..Len(remaining) : MatchesUniverse(remaining[j])

(***************************************************************************)
(* C3: a run that meets a fatal condition (required cluster missing, no    *)
(* asset resolved in a mode that needs assets, invalid mode) ends before   *)
(* any composer has built a prompt and before the output file is written.  *)
(* The mode list, which main gets only from arguments made of separators,  *)
(* is rejected by the same branch as invalid and is counted with it.       *)
(***************************************************************************)
FatalExits ==
    {"usage", "missing_cluster", "no_valid_asset", "no_valid_asset_universe",
     "no_valid_asset_space"}

\* the space of the request declares a required cluster that no cluster of the list has
RequiredClusterMissing ==
    /\ Returned
    /\ mode \in {"space_only", "space_assets"}
    /\ s # None
    /\ s[1].cluster_binding # None
    /\ LET b == s[1].cluster_binding[1]
       IN  /\ strip(Get(b.cluster_id, <<>>)) # <<>>
           /\ b.requires_cluster_validation
           /\ ~ \E i \in 1..Len(clusters) :
                  SameText(Get(clusters[i].cluster_id, <<>>), Get(b.cluster_id, <<>>))

FatalCondition ==
    \/ RequiredClusterMissing
    \/ Returned /\ mode \in {"invalid", "list"}
    \/ /\ Returned
       /\ mode \in {"assets_only", "universe_assets", "space_assets"}
       /\ selected_assets = <<>>

C3_FatalBeforeCompose ==
    /\ FatalCondition => prompt = None /\ output = None
    /\ exit_code \in FatalExits => prompt = None /\ output = None /\ pc = "exit"
    /\ pc = "exit" => FatalCondition /\ exit_code \in FatalExits

C3_Witness ==
    /\ pc = "exit"
    /\ exit_code = "missing_cluster"
    /\ RequiredClusterMissing
    /\ prompt = None
    /\ output = None

(***************************************************************************)
(* C7: a request whose tokens bind both a universe and a space is rejected *)
(* as invalid, and what is reported for it (mode and error) differs from   *)
(* what is reported for a request none of whose tokens matches anything.   *)
(***************************************************************************)
Ended == pc \in {"exit", "done"}

\* what a request made of the tokens toks ends in, on the data of this run
RequestReport(toks) ==
    LET r == detect_mode(universes, spaces, assets, toks)
    IN  [mode |-> r.mode, branch |-> main_branch(r.mode, r.u, r.s)]

NoMatchToken == <<"q">>

MatchesNothing(t) == ~MatchesUniverse(t) /\ ~MatchesSpace(t) /\ ~MatchesAsset(t)

C7_AmbiguousReportedDistinctly ==
    Ended /\ Returned /\ UniverseIdx # 0 /\ SpaceIdx # 0 /\ MatchesNothing(NoMatchToken) =>
        /\ mode = "invalid"
        /\ output = None
        /\ [mode |-> mode, branch |-> main_branch(mode, u, s)]
              # RequestReport(<<NoMatchToken>>)

(***************************************************************************)
(* C8: a request that calls for assets (assets only, universe + assets,    *)
(* space + assets: it has residual tokens and at most one of universe and  *)
(* space bound) and resolves none of them ends in the fatal "no valid      *)
(* asset found" error and writes no prompt.                                *)
(***************************************************************************)
NoValidAssetExits ==
    {"no_valid_asset", "no_valid_asset_universe", "no_valid_asset_space"}

BindingIds ==
    { None, Some(<<>>), Some(<<" ">>), Some(<<"c">>), Some(<<" ", "C">>), Some(<<"d">>) }

BoundSpaces ==
    { [id |-> Some(<<"S">>), name |-> Some(<<"x">>), cluster_binding |-> None] }
    \cup
    { [id |-> Some(<<"S">>), name |-> Some(<<"x">>),
       cluster_binding |-> Some([cluster_id |-> cid, inherits_contract |-> inh,
                                 requires_cluster_validation |-> req])] :
        cid \in BindingIds, inh \in BOOLEAN, req \in BOOLEAN }

BoundClusterPool ==
    { [cluster_id |-> Some(<<"C", " ">>), name |-> Some(<<"d">>),
       variations |-> Some(<<"trio">>)],
      [cluster_id |-> Some(<<"c">>), name |-> None, variations |-> None],
      [cluster_id |-> None, name |-> Some(<<"d">>), variations |-> Some(<<"solo", "duo">>)] }

InitAttach ==
    /\ pc = "attach"
    /\ s \in {Some(sp) : sp \in BoundSpaces}
    /\ clusters \in SeqsUpTo(BoundClusterPool, MaxBoundClusters)
    /\ assets_count \in 0..MaxCount
    /\ argv = <<>>
    /\ universes = <<>>
    /\ spaces = <<s[1]>>
    /\ assets = <<>>
    /\ tokens = <<>>
    /\ idx = 1
    /\ u = None
    /\ remaining = <<>>
    /\ selected_assets = <<>>
    /\ mode = "unset"
    /\ cluster = None
    /\ variation = None
    /\ prompt = None
    /\ output = None
    /\ warnings = <<>>
    /\ exit_code = "running"
    /\ raw = None
    /\ kind = "none"
    /\ result = None

NextAttach == AttachCluster

SpecAttach == InitAttach /\ [][NextAttach]_vars

Binding == s[1].cluster_binding

\* the binding names a cluster: its cluster_id is not empty once trimmed
NamesCluster == Binding # None /\ strip(Get(Binding[1].cluster_id, <<>>)) # <<>>

\* the indices of the clusters that have the cluster_id of the binding
NamedClusters ==
    {i \in 1..Len(clusters) :
        SameText(Get(clusters[i].cluster_id, <<>>), Get(Binding[1].cluster_id, <<>>))}

AttachReturned == pc = "compose_space"

AttachFailed == pc = "exit" /\ exit_code = "missing_cluster"

AttachOver == pc # "attach"

(***************************************************************************)
(* C4: when the binding names a cluster, requires_cluster_validation is    *)
(* true and no cluster of the list has that cluster_id (compared trimmed   *)
(* and without case), attach_cluster_if_needed ends in the fatal error     *)
(* and does not return, whatever inherits_contract and the asset count.    *)
(***************************************************************************)
C4_RequiredClusterFatal ==
    AttachOver /\ NamesCluster /\ Binding[1].requires_cluster_validation
               /\ NamedClusters = {} =>
        /\ AttachFailed
        /\ ~AttachReturned
        /\ cluster = None
        /\ variation = None

C4_Witness ==
    /\ AttachFailed
    /\ NamesCluster
    /\ ~Binding[1].inherits_contract
    /\ assets_count = 3
    /\ clusters # <<>>

(***************************************************************************)
(* C5: when the named cluster resolves, it is returned, with no variation  *)
(* if inherits_contract is false, else with "duo" for two assets or more   *)
(* and "solo" for none or one; the variation is a function of              *)
(* inherits_contract and the asset count alone, and the calls with 1 and   *)
(* with 3 assets return the same cluster and differ only in the label.     *)
(***************************************************************************)
VariationRule(inherits, count) ==
    IF ~inherits THEN None ELSE IF count >= 2 THEN Some("duo") ELSE Some("solo")

C5_VariationFromCount ==
    AttachOver /\ NamesCluster /\ NamedClusters # {} =>
        /\ AttachReturned
        /\ exit_code = "running"
        /\ cluster = Some(clusters[Min(NamedClusters)])
        /\ variation = VariationRule(Binding[1].inherits_contract, assets_count)
        /\ LET one == attach_cluster_if_needed(s[1], clusters, 1)
               three == attach_cluster_if_needed(s[1], clusters, 3)
           IN  /\ one.cluster = cluster /\ three.cluster = cluster
               /\ one.fatal = FALSE /\ three.fatal = FALSE
               /\ Binding[1].inherits_contract =>
                     one.variation = Some("solo") /\ three.variation = Some("duo")
               /\ ~Binding[1].inherits_contract =>
                     one.variation = None /\ three.variation = None

\* two assets and a cluster whose own variations do not have "duo"
C5_Witness ==
    /\ AttachReturned
    /\ NamesCluster
    /\ assets_count = 2
    /\ variation = Some("duo")
    /\ cluster # None
    /\ cluster[1].variations = Some(<<"trio">>)

(***************************************************************************)
(* C6: attach_cluster_if_needed returns no cluster and no variation, with  *)
(* no error, when the space has no cluster_binding, when the binding has   *)
(* no cluster_id that is not empty (whatever the validation flag), and     *)
(* when the cluster_id does not resolve and validation is not required.    *)
(***************************************************************************)
C6_NoClusterIsNotAnError ==
    /\ AttachOver
    /\ \/ Binding = None
       \/ ~NamesCluster
       \/ NamedClusters = {} /\ ~Binding[1].requires_cluster_validation
    => /\ AttachReturned
       /\ exit_code = "running"
       /\ cluster = None
       /\ variation = None

\* a binding without a cluster_id that asks for validation
C6_Witness ==
    /\ AttachReturned
    /\ Binding # None
    /\ ~NamesCluster
    /\ Binding[1].requires_cluster_validation
    /\ cluster = None

(***************************************************************************)
(* resolve_assets on every asset list and token list                       *)
(***************************************************************************)
ResolveAssetPool ==
    { [asset_id |-> Some(<<"A">>), nome |-> Some(<<"z">>), sobrenome |-> None],
      [asset_id |-> None, nome |-> Some(<<"b">>), sobrenome |-> Some(<<"c">>)],
      [asset_id |-> Some(<<" ", "a">>), nome |-> Some(<<"d">>), sobrenome |-> None],
      [asset_id |-> None, nome |-> None, sobrenome |-> Some(<<"A">>)] }

ResolveTokenPool ==
    { <<"A", "\t">>, <<"Z">>, <<"B", " ", "c">>, <<"d">>, <<"q">> }

InitAssets ==
    /\ pc = "resolve_assets"
    /\ assets \in SeqsUpTo(ResolveAssetPool, MaxResolveAssets)
    /\ tokens \in SeqsUpTo(ResolveTokenPool, MaxTokens)
    /\ argv = <<>>
    /\ universes = <<>>
    /\ spaces = <<>>
    /\ clusters = <<>>
    /\ idx = 1
    /\ u = None
    /\ s = None
    /\ remaining = <<>>
    /\ selected_assets = <<>>
    /\ mode = "unset"
    /\ assets_count = 0
    /\ cluster = None
    /\ variation = None
    /\ prompt = None
    /\ output = None
    /\ warnings = <<>>
    /\ exit_code = "running"
    /\ raw = None
    /\ kind = "none"
    /\ result = None

\* resolved = resolve_assets(assets, tokens), with the warnings it prints
ResolveAssetsCall ==
    /\ pc = "resolve_assets"
    /\ LET r == resolve_assets(assets, tokens)
       IN  /\ selected_assets' = r.resolved
           /\ warnings' = r.warnings
    /\ pc' = "resolved"
    /\ UNCHANGED <<raw, kind, result>>
    /\ UNCHANGED <<argv, universes, spaces, clusters, assets, tokens, idx, u, s,
                   remaining, mode, assets_count, cluster, variation, prompt,
                   output, exit_code>>

NextAssets == ResolveAssetsCall

SpecAssets == InitAssets /\ [][NextAssets]_vars

FullName(a) == strip(Get(a.nome, <<>>) \o <<" ">> \o Get(a.sobrenome, <<>>))

TokenMatchesAsset(t, a) ==
    SameText(Get(a.asset_id, <<>>), t) \/ SameText(FullName(a), t)

\* index of the first asset of the list that the token matches (0: none)
FirstMatch(t) ==
    LET I == {i \in 1..Len(assets) : TokenMatchesAsset(t, assets[i])}
    IN  IF I = {} THEN 0 ELSE Min(I)

\* identity key: the asset_id, or the full name when there is no asset_id
IdentityKey(a) ==
    IF Get(a.asset_id, <<>>) # <<>>
    THEN lower(strip(Get(a.asset_id, <<>>)))
    ELSE lower(strip(FullName(a)))

TokenKey(j) == IdentityKey(assets[FirstMatch(tokens[j])])

\* the tokens that match an asset no earlier token has matched the identity of
FirstHits ==
    {j \in 1..Len(tokens) :
        /\ FirstMatch(tokens[j]) # 0
        /\ \A k \in 1..(j - 1) : FirstMatch(tokens[k]) = 0 \/ TokenKey(k) # TokenKey(j)}

Misses == {j \in 1..Len(tokens) : FirstMatch(tokens[j]) = 0}

(***************************************************************************)
(* C9: resolve_assets returns, in the order of their first matching        *)
(* tokens, the assets the tokens match, each identity key once; a token    *)
(* that matches no asset gives one warning, adds nothing to the result     *)
(* and does not stop the tokens after it from being resolved.              *)
(***************************************************************************)
C9_ResolveAssets ==
    pc = "resolved" =>
        /\ Len(selected_assets) = Cardinality(FirstHits)
        /\ \A k \in 1..Len(selected_assets) :
              selected_assets[k] = assets[FirstMatch(SubSeqAt(tokens, FirstHits)[k])]
        /\ \A i, j \in 1..Len(selected_assets) :
              i # j => IdentityKey(selected_assets[i]) # IdentityKey(selected_assets[j])
        /\ warnings = SubSeqAt(tokens, Misses)

\* a miss first, then a hit, then a token of an identity already taken
C9_Witness ==
    /\ pc = "resolved"
    /\ Len(tokens) = 3
    /\ FirstMatch(tokens[1]) = 0
    /\ Len(warnings) = 1
    /\ Len(selected_assets) = 1
    /\ tokens[2] # tokens[3]
    /\ FirstMatch(tokens[2]) # FirstMatch(tokens[3])

(***************************************************************************)
(* _sanitize_argv on every argument vector                                 *)
(***************************************************************************)
SanChars == {"a", " ", "+", ","}

\* some longer arguments
LongArgs ==
    { <<"a", ",", "a">>, <<"a", "+", "a">>, <<" ", "a", ",", " ", "a">> }

InitSanitize ==
    /\ pc = "sanitize"
    /\ argv \in SeqsUpTo(SeqsUpTo(SanChars, MaxArgLen) \cup LongArgs, MaxSanArgs)
    /\ universes = <<>>
    /\ spaces = <<>>
    /\ clusters = <<>>
    /\ assets = <<>>
    /\ tokens = <<>>
    /\ idx = 1
    /\ u = None
    /\ s = None
    /\ remaining = <<>>
    /\ selected_assets = <<>>
    /\ mode = "unset"
    /\ assets_count = 0
    /\ cluster = None
    /\ variation = None
    /\ prompt = None
    /\ output = None
    /\ warnings = <<>>
    /\ exit_code = "running"
    /\ raw = None
    /\ kind = "none"
    /\ result = None

\* tokens = _sanitize_argv(argv)
SanitizeCall ==
    /\ pc = "sanitize"
    /\ tokens' = _sanitize_argv(argv)
    /\ pc' = "sanitized"
    /\ UNCHANGED <<raw, kind, result>>
    /\ UNCHANGED <<argv, universes, spaces, clusters, assets, idx, u, s,
                   remaining, selected_assets, mode, assets_count, cluster,
                   variation, prompt, output, warnings, exit_code>>

NextSanitize == SanitizeCall

SpecSanitize == InitSanitize /\ [][NextSanitize]_vars

IsSeparator(c) == c \in {" ", "\t", "\n", "+", ","}

\* the arguments joined with single spaces
RECURSIVE JoinedWithSpaces(_)
JoinedWithSpaces(args) ==
    IF args = <<>> THEN <<>>
    ELSE IF Len(args) = 1 THEN args[1]
    ELSE JoinedWithSpaces(SubSeq(args, 1, Len(args) - 1)) \o <<" ">> \o args[Len(args)]

\* the maximal runs of characters that are not separators, in order
RunsOf(text) ==
    LET Starts == {i \in 1..Len(text) :
                      ~IsSeparator(text[i]) /\ (i = 1 \/ IsSeparator(text[i - 1]))}
        EndOf(i) == Min({k \in i..Len(text) : k = Len(text) \/ IsSeparator(text[k + 1])})
        Start(k) == CHOOSE i \in Starts : Cardinality({j \in Starts : j <= i}) = k
    IN  [k \in 1..Cardinality(Starts) |-> SubSeq(text, Start(k), EndOf(Start(k)))]

(***************************************************************************)
(* C10: _sanitize_argv returns the arguments joined with spaces and split  *)
(* on whitespace, "+" and ",": no token is empty or has a separator in     *)
(* it, the tokens keep their order, repeated tokens are all kept, and      *)
(* arguments made of separators only give the empty list; the arguments    *)
(* "U-04", "+", "A-09,A-10" give "U-04", "A-09", "A-10".                   *)
(***************************************************************************)
C10_SanitizeArgv ==
    /\ pc = "sanitized" =>
          /\ tokens = RunsOf(JoinedWithSpaces(argv))
          /\ \A k \in 1..Len(tokens) :
                /\ tokens[k] # <<>>
                /\ \A i \in 1..Len(tokens[k]) : ~IsSeparator(tokens[k][i])
          /\ (\A n \in 1..Len(argv) : \A i \in 1..Len(argv[n]) : IsSeparator(argv[n][i]))
                => tokens = <<>>
    /\ argv = <<>> =>
       _sanitize_argv(<< <<"U", "-", "0", "4">>, <<"+">>,
                         <<"A", "-", "0", "9", ",", "A", "-", "1", "0">> >>)
            = << <<"U", "-", "0", "4">>, <<"A", "-", "0", "9">>, <<"A", "-", "1", "0">> >>

\* one argument split in two by a comma, and the same token twice
C10_Witness ==
    /\ pc = "sanitized"
    /\ Len(argv) = 2
    /\ Len(tokens) = 3
    /\ tokens[1] = tokens[3]
    /\ \E n \in 1..Len(argv) : \E i \in 1..Len(argv[n]) : argv[n][i] = ","
    /\ \E n \in 1..Len(argv) : \E i \in 1..Len(argv[n]) : argv[n][i] = "+"

(***************************************************************************)
(* C17: the result (mode, u, s, assets) of detect_mode has, in every mode  *)
(* but invalid, exactly the slots its mode names: universe_only and        *)
(* universe_assets have u and no s, space_only and space_assets have s     *)
(* and no u, assets_only has neither, the _only modes and list have no     *)
(* asset and the asset modes have one at least.  So the three "no valid    *)
(* asset" exits of main are never taken, and a universe followed only by   *)
(* tokens that resolve to nothing ends in universe_only, prompt written.   *)
(***************************************************************************)
UniverseThenMisses ==
    /\ Ended
    /\ UniverseIdx # 0
    /\ SpaceIdx = 0
    /\ ResidualIdx # {}
    /\ ~AssetResolved

C17_ResultShape ==
    /\ Returned =>
          /\ mode = "universe_only" => u # None /\ s = None /\ selected_assets = <<>>
          /\ mode = "universe_assets" => u # None /\ s = None /\ selected_assets # <<>>
          /\ mode = "space_only" => s # None /\ u = None /\ selected_assets = <<>>
          /\ mode = "space_assets" => s # None /\ u = None /\ selected_assets # <<>>
          /\ mode = "assets_only" => u = None /\ s = None /\ selected_assets # <<>>
          /\ mode = "list" => u = None /\ s = None /\ selected_assets = <<>>
    /\ exit_code \notin NoValidAssetExits
    /\ UniverseThenMisses =>
          /\ mode = "universe_only"
          /\ exit_code = "ok"
          /\ output # None
          /\ output[1].composer = "universe_only"

C17_Witness ==
    /\ UniverseThenMisses
    /\ warnings # <<>>
    /\ output # None
    /\ mode = "universe_only"

(***************************************************************************)
(* detect_mode as a function: one call on a token list and three entity    *)
(* lists                                                                   *)
(***************************************************************************)
MaxDetectTokens == 3

DetectTokenPool == { <<"U">>, <<"s">>, <<"a">>, <<"Z">>, <<"q">> }

DetectUniverseLists == { <<>>, <<Universe1>>, <<Universe2>> }

DetectSpaceLists == { <<>>, <<Space2>>, <<Space2, Space1>> }

\* an asset, then before it one with no asset_id whose full name is that asset_id,
\* then after it one of another identity
DetectAssetLists ==
    { <<>>,
      << [asset_id |-> Some(<<"A">>), nome |-> Some(<<"z">>), sobrenome |-> None] >>,
      << [asset_id |-> None, nome |-> None, sobrenome |-> Some(<<"A">>)],
         [asset_id |-> Some(<<"A">>), nome |-> Some(<<"z">>), sobrenome |-> None] >>,
      << [asset_id |-> Some(<<"A">>), nome |-> Some(<<"z">>), sobrenome |-> None],
         [asset_id |-> Some(<<"q">>), nome |-> Some(<<"s">>), sobrenome |-> None] >> }

InitDetect ==
    /\ pc = "detect_mode"
    /\ tokens \in SeqsUpTo(DetectTokenPool, MaxDetectTokens)
    /\ universes \in DetectUniverseLists
    /\ spaces \in DetectSpaceLists
    /\ assets \in DetectAssetLists
    /\ argv = <<>>
    /\ clusters = <<>>
    /\ idx = 1
    /\ u = None
    /\ s = None
    /\ remaining = <<>>
    /\ selected_assets = <<>>
    /\ mode = "unset"
    /\ assets_count = 0
    /\ cluster = None
    /\ variation = None
    /\ prompt = None
    /\ output = None
    /\ warnings = <<>>
    /\ exit_code = "running"
    /\ raw = None
    /\ kind = "none"
    /\ result = None

\* mode, u, s, selected_assets = detect_mode(tokens, universes, spaces, assets)
DetectModeCall ==
    /\ pc = "detect_mode"
    /\ LET r == detect_mode(universes, spaces, assets, tokens)
       IN  /\ mode' = r.mode
           /\ u' = r.u
           /\ s' = r.s
           /\ selected_assets' = r.assets
    /\ pc' = "dispatch"
    /\ UNCHANGED <<raw, kind, result>>
    /\ UNCHANGED <<argv, universes, spaces, clusters, assets, tokens, idx,
                   remaining, assets_count, cluster, variation, prompt,
                   output, warnings, exit_code>>

NextDetect == DetectModeCall

SpecDetect == InitDetect /\ [][NextDetect]_vars

\* the token list in another order
Permuted(p) == [i \in 1..Len(tokens) |-> tokens[p[i]]]

Range(seq) == {seq[i] : i \in 1..Len(seq)}

\* no token is a match key of two kinds of entity
DisjointKeys ==
    \A i \in 1..Len(tokens) :
        /\ ~(MatchesUniverse(tokens[i]) /\ MatchesSpace(tokens[i]))
        /\ ~(MatchesUniverse(tokens[i]) /\ MatchesAsset(tokens[i]))
        /\ ~(MatchesSpace(tokens[i]) /\ MatchesAsset(tokens[i]))

\* no two different asset records have the same identity key
DistinctIdentityKeys ==
    \A i, j \in 1..Len(assets) :
        IdentityKey(assets[i]) = IdentityKey(assets[j]) => assets[i] = assets[j]

OrderIndependent ==
    \A p \in Permutations(1..Len(tokens)) :
        LET r == detect_mode(universes, spaces, assets, Permuted(p))
        IN  /\ r.mode = mode
            /\ Range(r.assets) = Range(selected_assets)

\* some order of the same tokens gives another mode
OrderDependentMode ==
    \E p \in Permutations(1..Len(tokens)) :
        detect_mode(universes, spaces, assets, Permuted(p)).mode # mode

\* a token matching a universe and a space is the universe when it comes
\* first, and the space when the universe slot is already filled by it
SlotByOccupancy ==
    \A i \in 1..Len(tokens) :
        MatchesUniverse(tokens[i]) /\ MatchesSpace(tokens[i]) =>
            LET one == detect_mode(universes, spaces, assets, <<tokens[i]>>)
                two == detect_mode(universes, spaces, assets, <<tokens[i], tokens[i]>>)
            IN  /\ one.mode = "universe_only" /\ one.u # None /\ one.s = None
                /\ two.mode = "invalid" /\ two.u = one.u /\ two.s # None

(***************************************************************************)
(* C18 as stated: when no token is a match key of two kinds, the mode and  *)
(* the set of resolved assets are the same for every permutation of the    *)
(* token list.                                                             *)
(***************************************************************************)
C18_OrderIndependentAsStated ==
    Returned /\ DisjointKeys => OrderIndependent

(***************************************************************************)
(* C18: when no token is a match key of two kinds and no two asset records *)
(* share an identity key, the mode and the set of resolved assets are the  *)
(* same for every permutation of the token list; a token matching both a   *)
(* universe and a space is taken as the universe while the universe slot   *)
(* is empty and as the space otherwise.                                    *)
(***************************************************************************)
C18_OrderIndependent ==
    Returned =>
        /\ DisjointKeys /\ DistinctIdentityKeys => OrderIndependent
        /\ SlotByOccupancy

\* a universe, a space and an asset named in one request, keys disjoint
C18_Witness ==
    /\ Returned
    /\ DisjointKeys
    /\ DistinctIdentityKeys
    /\ Len(tokens) = 3
    /\ u # None
    /\ s # None
    /\ selected_assets # <<>>
    /\ tokens[1] # tokens[2]

\* without disjointness the mode depends on the order
C18_OrderDependentWitness ==
    /\ Returned
    /\ ~DisjointKeys
    /\ OrderDependentMode

(***************************************************************************)
(* Parsed JSON.  A value is a record [t, v]: t is its Python type and v    *)
(* its content, always a sequence: nothing for null, the boolean or the    *)
(* integer alone, the characters of a string or of the repr of a float,    *)
(* the items of a list, the (key, value) pairs of a dict in key order.     *)
(***************************************************************************)
JNull == [t |-> "null", v |-> <<>>]

JBool(b) == [t |-> "bool", v |-> <<b>>]

JInt(n) == [t |-> "int", v |-> <<n>>]

JFloat(repr) == [t |-> "float", v |-> repr]

JStr(str) == [t |-> "str", v |-> str]

JList(items) == [t |-> "list", v |-> items]

JDict(pairs) == [t |-> "dict", v |-> pairs]

\* key in d
has_key(d, key) == \E i \in 1..Len(d.v) : d.v[i].k = key

\* d.get(key): None when the key is missing
dict_get(d, key) ==
    IF has_key(d, key)
    THEN d.v[Min({i \in 1..Len(d.v) : d.v[i].k = key})].v
    ELSE JNull

\* [x for x in items if isinstance(x, dict)]
only_dicts(items) == SelectSeq(items, LAMBDA x : x.t = "dict")

K_assets == <<"a", "s", "s", "e", "t", "s">>

K_assets_registry == <<"a", "s", "s", "e", "t", "s", "_", "r", "e", "g", "i", "s", "t", "r", "y">>

K_registry == <<"r", "e", "g", "i", "s", "t", "r", "y">>

K_items == <<"i", "t", "e", "m", "s">>

K_spaces == <<"s", "p", "a", "c", "e", "s">>

K_clusters == <<"c", "l", "u", "s", "t", "e", "r", "s">>

K_universes == <<"u", "n", "i", "v", "e", "r", "s", "e", "s">>

(***************************************************************************)
(* Schema normalizers                                                      *)
(***************************************************************************)
\* the loop of get_assets over its candidate keys
RECURSIVE get_assets_loop(_, _)
get_assets_loop(data, keys) ==
    IF keys = <<>> THEN <<>>
    ELSE LET v == dict_get(data, Head(keys))
         IN  IF v.t = "list" THEN only_dicts(v.v)
             ELSE get_assets_loop(data, Tail(keys))

get_assets(data) ==
    IF data.t = "list" THEN only_dicts(data.v)
    ELSE IF data.t = "dict"
    THEN get_assets_loop(data, <<K_assets, K_assets_registry, K_registry>>)
    ELSE <<>>

get_spaces(data) ==
    IF data.t = "dict" /\ dict_get(data, K_spaces).t = "list"
    THEN only_dicts(dict_get(data, K_spaces).v)
    ELSE IF data.t = "list" THEN only_dicts(data.v)
    ELSE <<>>

get_clusters(data) ==
    IF data.t = "dict" /\ dict_get(data, K_clusters).t = "list"
    THEN only_dicts(dict_get(data, K_clusters).v)
    ELSE <<>>

\* variant: the list is returned as it is
get_universes_unfiltered(data) ==
    IF data.t = "dict" /\ dict_get(data, K_universes).t = "list"
    THEN dict_get(data, K_universes).v
    ELSE IF data.t = "list" THEN data.v
    ELSE <<>>

get_universes(data) ==
    IF data.t = "dict" /\ dict_get(data, K_universes).t = "list"
    THEN only_dicts(dict_get(data, K_universes).v)
    ELSE IF data.t = "list" THEN only_dicts(data.v)
    ELSE <<>>

\* aniversariantes.py: the loop over its candidate keys, (assets, key)
RECURSIVE _extract_assets_loop(_, _)
_extract_assets_loop(data, keys) ==
    IF keys = <<>> THEN [assets |-> <<>>, key |-> None]
    ELSE IF dict_get(data, Head(keys)).t = "list"
    THEN [assets |-> only_dicts(dict_get(data, Head(keys)).v), key |-> Some(Head(keys))]
    ELSE _extract_assets_loop(data, Tail(keys))

_extract_assets_container(data) ==
    IF data.t = "list" THEN [assets |-> only_dicts(data.v), key |-> None]
    ELSE IF data.t = "dict"
    THEN _extract_assets_loop(data, <<K_assets, K_assets_registry, K_items>>)
    ELSE [assets |-> <<>>, key |-> None]

(***************************************************************************)
(* One call of a normalizer on a parsed JSON file                          *)
(***************************************************************************)
MaxRawItems == 3

MaxRawKeys == 2

ObjA == JDict(<<[k |-> <<"i", "d">>, v |-> JInt(1)]>>)

ObjB == JDict(<<>>)

\* what a list of a JSON file may hold: objects, and what is not an object
RawItems == { ObjA, ObjB, JNull, JStr(<<"x">>), JList(<<ObjA>>) }

\* what a mapping may hold under a key
RawWrapped == { JList(<<ObjA>>), JList(<<JNull, ObjB, ObjA>>), JList(<<>>), ObjA }

RawKeys ==
    { K_assets, K_assets_registry, K_registry, K_items, K_spaces, K_clusters,
      K_universes, <<"m", "e", "t", "a">> }

\* the mappings of n keys, no key twice
RECURSIVE RawDicts(_)
RawDicts(n) ==
    IF n = 0 THEN { <<>> }
    ELSE LET shorter == RawDicts(n - 1)
         IN  shorter \cup
             { Append(d, [k |-> key, v |-> val]) :
                 d \in {x \in shorter : Len(x) = n - 1},
                 key \in RawKeys, val \in RawWrapped }

RawPool ==
    { JNull, JBool(TRUE), JInt(0), JStr(<<"x">>) }
    \cup { JList(items) : items \in SeqsUpTo(RawItems, MaxRawItems) }
    \cup { JDict(pairs) :
               pairs \in {d \in RawDicts(MaxRawKeys) :
                             \A i, j \in 1..Len(d) : d[i].k = d[j].k => i = j} }

InitNormalize ==
    /\ pc = "load"
    /\ raw \in RawPool
    /\ kind \in {"get_assets", "get_spaces", "get_clusters", "get_universes",
                 "_extract_assets_container"}
    /\ result = None
    /\ argv = <<>>
    /\ universes = <<>>
    /\ spaces = <<>>
    /\ clusters = <<>>
    /\ assets = <<>>
    /\ tokens = <<>>
    /\ idx = 1
    /\ u = None
    /\ s = None
    /\ remaining = <<>>
    /\ selected_assets = <<>>
    /\ mode = "unset"
    /\ assets_count = 0
    /\ cluster = None
    /\ variation = None
    /\ prompt = None
    /\ output = None
    /\ warnings = <<>>
    /\ exit_code = "running"

\* the list a normalizer makes of the file
normalize(fn, data) ==
    CASE fn = "get_assets" -> get_assets(data)
      [] fn = "get_spaces" -> get_spaces(data)
      [] fn = "get_clusters" -> get_clusters(data)
      [] fn = "get_universes" -> get_universes(data)
      [] fn = "_extract_assets_container" -> _extract_assets_container(data).assets

NormalizeCall ==
    /\ pc = "load"
    /\ result' = Some(normalize(kind, raw))
    /\ pc' = "loaded"
    /\ UNCHANGED <<raw, kind>>
    /\ UNCHANGED <<argv, universes, spaces, clusters, assets, tokens, idx, u, s,
                   remaining, selected_assets, mode, assets_count, cluster,
                   variation, prompt, output, warnings, exit_code>>

NextNormalize == NormalizeCall

SpecNormalize == InitNormalize /\ [][NextNormalize]_vars

Normalized == pc = "loaded"

\* the objects of a list, in the order of the list
Objects(items) == SubSeqAt(items, {i \in 1..Len(items) : items[i].t = "dict"})

\* the value a mapping holds under a key, if it is a list
HoldsList(key) ==
    /\ raw.t = "dict"
    /\ \E i \in 1..Len(raw.v) : raw.v[i].k = key /\ raw.v[i].v.t = "list"

ListUnder(key) ==
    (CHOOSE p \in {raw.v[i] : i \in 1..Len(raw.v)} : p.k = key).v.v

\* the first key of a candidate list under which the mapping holds a list (0: none)
FirstCandidate(cands) ==
    LET I == {i \in 1..Len(cands) : HoldsList(cands[i])}
    IN  IF I = {} THEN 0 ELSE Min(I)

\* the objects of a bare list if bare lists are accepted, or of the list
\* under the first candidate key, or nothing
Accepted(bare, cands) ==
    IF raw.t = "list"
    THEN IF bare THEN Objects(raw.v) ELSE <<>>
    ELSE IF FirstCandidate(cands) # 0
    THEN Objects(ListUnder(cands[FirstCandidate(cands)]))
    ELSE <<>>

\* the candidate keys the specification gives each kind of entity
KindCandidates ==
    CASE kind \in {"get_assets", "_extract_assets_container"} ->
              <<K_assets, K_assets_registry, K_registry, K_items>>
      [] kind = "get_spaces" -> <<K_spaces>>
      [] kind = "get_clusters" -> <<K_clusters>>
      [] kind = "get_universes" -> <<K_universes>>

\* the candidate keys each function has
FunctionCandidates ==
    CASE kind = "get_assets" -> <<K_assets, K_assets_registry, K_registry>>
      [] kind = "_extract_assets_container" -> <<K_assets, K_assets_registry, K_items>>
      [] kind = "get_spaces" -> <<K_spaces>>
      [] kind = "get_clusters" -> <<K_clusters>>
      [] kind = "get_universes" -> <<K_universes>>

(***************************************************************************)
(* C11 as stated: for every kind a bare list is returned filtered to its   *)
(* objects, and a mapping is accepted through each candidate key of the    *)
(* kind (assets, assets_registry, registry and items for assets), the      *)
(* first candidate in order holding a list being the one returned.         *)
(***************************************************************************)
C11_EveryShapeAccepted ==
    Normalized => result[1] = Accepted(TRUE, KindCandidates)

\* what the functions accept: a bare list except for get_clusters, and the
\* candidate keys of each function
NormalizerShapes ==
    Normalized => result[1] = Accepted(kind # "get_clusters", FunctionCandidates)

\* get_assets of go.py on a mapping whose list is under items
C11_ItemsIgnored ==
    /\ Normalized
    /\ kind = "get_assets"
    /\ raw = JDict(<<[k |-> K_items, v |-> JList(<<ObjA>>)]>>)
    /\ result[1] = <<>>

\* a list of the file: the file itself, or a value of the mapping
SourceLists ==
    IF raw.t = "list" THEN {raw.v}
    ELSE IF raw.t = "dict"
    THEN {raw.v[i].v.v : i \in {j \in 1..Len(raw.v) : raw.v[j].v.t = "list"}}
    ELSE {}

(***************************************************************************)
(* C12: for every JSON value and every kind the normalizer returns a list  *)
(* of objects only, in the relative order they have in the source list,    *)
(* and the empty list when the value is neither a list nor a mapping       *)
(* holding a list under a candidate key.                                   *)
(***************************************************************************)
C12_ObjectsInOrder ==
    Normalized =>
        /\ \A i \in 1..Len(result[1]) : result[1][i].t = "dict"
        /\ \/ result[1] = <<>>
           \/ \E L \in SourceLists : \E I \in SUBSET (1..Len(L)) :
                  result[1] = SubSeqAt(L, I)
        /\ raw.t # "list" /\ FirstCandidate(KindCandidates) = 0 => result[1] = <<>>

\* a list whose two objects have a string between them
C12_Witness ==
    /\ Normalized
    /\ kind = "get_universes"
    /\ raw = JList(<<ObjB, JStr(<<"x">>), ObjA>>)
    /\ result[1] = <<ObjB, ObjA>>

(***************************************************************************)
(* Value serializer.  The accented letters of the literals of the program  *)
(* are written without their accent.                                       *)
(***************************************************************************)
UpperChar(c) ==
    CASE c = "a" -> "A"
      [] c = "b" -> "B"
      [] c = "c" -> "C"
      [] c = "d" -> "D"
      [] c = "e" -> "E"
      [] c = "f" -> "F"
      [] c = "g" -> "G"
      [] c = "h" -> "H"
      [] c = "i" -> "I"
      [] c = "j" -> "J"
      [] c = "k" -> "K"
      [] c = "l" -> "L"
      [] c = "m" -> "M"
      [] c = "n" -> "N"
      [] c = "o" -> "O"
      [] c = "p" -> "P"
      [] c = "q" -> "Q"
      [] c = "r" -> "R"
      [] c = "s" -> "S"
      [] c = "t" -> "T"
      [] c = "u" -> "U"
      [] c = "v" -> "V"
      [] c = "w" -> "W"
      [] c = "x" -> "X"
      [] c = "y" -> "Y"
      [] c = "z" -> "Z"
      [] OTHER -> c

\* str(n) of a natural number
RECURSIVE str_nat(_)
str_nat(n) ==
    LET digit(d) == <<"0", "1", "2", "3", "4", "5", "6", "7", "8", "9">>[d + 1]
    IN  IF n < 10 THEN <<digit(n)>> ELSE str_nat(n \div 10) \o <<digit(n % 10)>>

\* str(n) of an int
str_int(n) == IF n < 0 THEN <<"-">> \o str_nat(-n) ELSE str_nat(n)

\* str(x) of a scalar
py_str(x) ==
    CASE x.t = "str" -> x.v
      [] x.t = "int" -> str_int(x.v[1])
      [] x.t = "float" -> x.v
      [] x.t = "bool" -> IF x.v[1] THEN <<"T", "r", "u", "e">> ELSE <<"F", "a", "l", "s", "e">>
      [] x.t = "null" -> <<"N", "o", "n", "e">>

\* bool(x)
py_bool(x) ==
    CASE x.t = "null" -> FALSE
      [] x.t = "bool" -> x.v[1]
      [] x.t = "int" -> x.v[1] # 0
      [] OTHER -> x.v # <<>>

\* sep.join(items)
RECURSIVE join_with(_, _)
join_with(sep, items) ==
    IF items = <<>> THEN <<>>
    ELSE IF Len(items) = 1 THEN items[1]
    ELSE items[1] \o sep \o join_with(sep, Tail(items))

NonEmpty(str) == str # <<>>

_title(str) ==
    LET t == strip(str)
    IN  IF t = <<>> THEN t ELSE <<UpperChar(Head(t))>> \o Tail(t)

_safe_join(items, sep) ==
    join_with(sep, SelectSeq([i \in 1..Len(items) |-> strip(items[i])], NonEmpty))

_klabel(key) == strip([i \in 1..Len(key) |-> IF key[i] = "_" THEN " " ELSE key[i]])

\* isinstance(x, (str, int, float)): a bool is an int
is_str_int_float(x) == x.t \in {"str", "int", "float", "bool"}

\* the list branch of _value_to_text
list_to_text(items) ==
    _safe_join(SelectSeq([i \in 1..Len(items) |->
                             IF is_str_int_float(items[i])
                             THEN strip(py_str(items[i]))
                             ELSE <<>>],
                         NonEmpty),
               <<",", " ">>)

RECURSIVE _value_to_text(_)
_value_to_text(v) ==
    CASE v.t = "null" -> <<>>
      [] v.t = "bool" -> IF v.v[1] THEN <<"s", "i", "m">> ELSE <<"n", "a", "o">>
      [] v.t \in {"int", "float"} -> py_str(v)
      [] v.t = "str" -> strip(v.v)
      [] v.t = "list" -> list_to_text(v.v)
      [] v.t = "dict" ->
            _safe_join(SelectSeq([i \in 1..Len(v.v) |->
                                     LET txt == _value_to_text(v.v[i].v)
                                     IN  IF txt # <<>>
                                         THEN _klabel(v.v[i].k) \o <<":", " ">> \o txt
                                         ELSE <<>>],
                                 NonEmpty),
                       <<" ", "|", " ">>)

(***************************************************************************)
(* One call of _value_to_text                                              *)
(***************************************************************************)
MaxListLen == 3

ListElems ==
    { JNull, JBool(TRUE), JInt(7), JFloat(<<"1", ".", "5">>), JStr(<<" ", "a", " ">>),
      JStr(<<" ">>), JList(<<JStr(<<"b">>)>>),
      JDict(<<[k |-> <<"k">>, v |-> JStr(<<"b">>)]>>) }

DictValues ==
    { JNull, JStr(<<" ">>), JStr(<<"b">>), JBool(FALSE), JInt(-12), JList(<<JNull>>),
      JList(<<JStr(<<"a">>), JInt(7)>>), JDict(<<>>),
      JDict(<<[k |-> <<"k">>, v |-> JStr(<<"b">>)]>>) }

DictKeys == { <<"k">>, <<"a", "_", "b">> }

ValuePool ==
    { JNull, JBool(TRUE), JBool(FALSE), JInt(0), JInt(-12), JFloat(<<"1", ".", "5">>),
      JStr(<<>>), JStr(<<" ", "\t">>), JStr(<<" ", "a", " ">>) }
    \cup { JList(items) : items \in SeqsUpTo(ListElems, MaxListLen) }
    \cup { JDict(<<>>) }
    \cup { JDict(<<[k |-> key, v |-> val]>>) : key \in DictKeys, val \in DictValues }
    \cup { JDict(<<[k |-> <<"k">>, v |-> val1], [k |-> <<"a", "_", "b">>, v |-> val2]>>) :
             val1 \in DictValues, val2 \in DictValues }

InitValue ==
    /\ pc = "value"
    /\ raw \in ValuePool
    /\ kind = "_value_to_text"
    /\ result = None
    /\ argv = <<>>
    /\ universes = <<>>
    /\ spaces = <<>>
    /\ clusters = <<>>
    /\ assets = <<>>
    /\ tokens = <<>>
    /\ idx = 1
    /\ u = None
    /\ s = None
    /\ remaining = <<>>
    /\ selected_assets = <<>>
    /\ mode = "unset"
    /\ assets_count = 0
    /\ cluster = None
    /\ variation = None
    /\ prompt = None
    /\ output = None
    /\ warnings = <<>>
    /\ exit_code = "running"

\* txt = _value_to_text(v)
ValueToTextCall ==
    /\ pc = "value"
    /\ result' = Some(_value_to_text(raw))
    /\ pc' = "text"
    /\ UNCHANGED <<raw, kind>>
    /\ UNCHANGED <<argv, universes, spaces, clusters, assets, tokens, idx, u, s,
                   remaining, selected_assets, mode, assets_count, cluster,
                   variation, prompt, output, warnings, exit_code>>

NextValue == ValueToTextCall

SpecValue == InitValue /\ [][NextValue]_vars

Serialized == pc = "text"

IsScalar(x) == x.t \in {"bool", "int", "float", "str"}

\* the texts of the scalar elements that are not empty, each as _value_to_text
\* gives it on its own, in the order of the list
Fragments(items) ==
    LET I == {i \in 1..Len(items) :
                 IsScalar(items[i]) /\ _value_to_text(items[i]) # <<>>}
    IN  [k \in 1..Cardinality(I) |-> _value_to_text(SubSeqAt(items, I)[k])]

RECURSIVE CommaJoined(_)
CommaJoined(frags) ==
    IF frags = <<>> THEN <<>>
    ELSE IF Len(frags) = 1 THEN frags[1]
    ELSE frags[1] \o <<",", " ">> \o CommaJoined(Tail(frags))

(***************************************************************************)
(* C16: for a list, _value_to_text gives each scalar element (boolean,     *)
(* number, string) the text it gives that element on its own, drops null,  *)
(* empty and non-scalar elements, and joins the fragments with ", " in     *)
(* the order of the list.                                                  *)
(***************************************************************************)
C16_ListElementsAsScalars ==
    Serialized /\ raw.t = "list" => result[1] = CommaJoined(Fragments(raw.v))

\* the same over the elements that are not booleans
ListWithoutBooleans ==
    Serialized /\ raw.t = "list" /\ (\A i \in 1..Len(raw.v) : raw.v[i].t # "bool")
        => result[1] = CommaJoined(Fragments(raw.v))

\* a boolean in a list comes out as Python prints it
C16_BooleanInList ==
    /\ Serialized
    /\ raw = JList(<<JBool(TRUE), JStr(<<" ", "a", " ">>)>>)
    /\ result[1] = <<"T", "r", "u", "e", ",", " ", "a">>

(***************************************************************************)
(* Prompt rendering.  A text is a sequence of characters; a fixed piece of *)
(* a template that holds no data (a heading, a label, a sentence) is one   *)
(* element of the sequence, and never begins or ends with a blank.         *)
(***************************************************************************)
\* "\n".join(lines)
join_lines(lines) == join_with(<<"\n">>, lines)

\* str(d.get(key, "")).strip()
field_str(d, key) ==
    strip(py_str(IF has_key(d, key) THEN dict_get(d, key) ELSE JStr(<<>>)))

\* f"- {label}: {txt}"
field_line(label, txt) == <<"-", " ">> \o label \o <<":", " ">> \o txt

\* f"- {x}"
item_line(txt) == <<"-", " ">> \o txt

meta_keys ==
    << <<"c", "l", "a", "s", "s", "i", "f", "i", "c", "a", "t", "i", "o", "n">>,
       <<"t", "e", "m", "p", "o", "r", "a", "l", "_", "p", "o", "l", "i", "c", "y">>,
       <<"m", "e", "m", "o", "r", "y", "_", "p", "o", "l", "i", "c", "y">>,
       <<"s", "a", "f", "e", "t", "y", "_", "e", "n", "v", "e", "l", "o", "p", "e">>,
       <<"t", "o", "n", "e">>,
       <<"g", "e", "n", "r", "e">>,
       <<"y", "e", "a", "r">>,
       <<"s", "e", "t", "t", "i", "n", "g">>,
       <<"r", "u", "l", "e", "s">>,
       <<"l", "i", "m", "i", "t", "s">>,
       <<"n", "o", "t", "e", "s">> >>

preferred ==
    << <<"t", "y", "p", "e">>,
       <<"m", "o", "d", "e">>,
       <<"d", "e", "s", "c", "r", "i", "p", "t", "i", "o", "n">>,
       <<"o", "b", "j", "e", "c", "t", "s">>,
       <<"r", "u", "l", "e", "s">>,
       <<"b", "i", "o", "m", "e", "c", "h", "a", "n", "i", "c", "s">>,
       <<"b", "a", "l", "a", "n", "c", "e", "_", "m", "o", "d", "e", "l">>,
       <<"l", "e", "v", "e", "r", "a", "g", "e", "_", "m", "o", "d", "e", "l">>,
       <<"e", "r", "o", "t", "i", "z", "a", "t", "i", "o", "n", "_", "l", "e", "v", "e", "l">>,
       <<"w", "a", "r", "d", "r", "o", "b", "e", "_", "p", "o", "l", "i", "c", "y">>,
       <<"v", "a", "r", "i", "a", "t", "i", "o", "n", "_", "d", "e", "s", "c", "r", "i", "p", "t", "i", "o", "n", "s">>,
       <<"c", "o", "l", "d", "_", "o", "p", "e", "n">>,
       <<"c", "a", "m", "e", "r", "a">>,
       <<"l", "i", "g", "h", "t", "i", "n", "g">>,
       <<"s", "o", "u", "n", "d">>,
       <<"m", "u", "s", "i", "c">> >>

skip == { <<"i", "d">>, <<"c", "l", "u", "s", "t", "e", "r", "_", "b", "i", "n", "d", "i", "n", "g">> }

InSeq(x, seq) == \E i \in 1..Len(seq) : seq[i] = x

\* variant: a metadata line is written for every key the universe has
describe_universe_unguarded(uu) ==
    LET name == IF field_str(uu, <<"n", "a", "m", "e">>) # <<>>
                THEN field_str(uu, <<"n", "a", "m", "e">>)
                ELSE <<"Universo sem nome">>
        bits == SelectSeq([i \in 1..Len(meta_keys) |->
                              IF has_key(uu, meta_keys[i])
                              THEN field_line(_title(_klabel(meta_keys[i])),
                                              _value_to_text(dict_get(uu, meta_keys[i])))
                              ELSE <<>>],
                          NonEmpty)
        lines == << <<"## UNIVERSO ATIVO">>, <<>>, <<"**">> \o name \o <<"**">>, <<>> >>
                 \o (IF bits # <<>>
                     THEN << <<"### Metadados">> >> \o bits \o << <<>> >>
                     ELSE <<>>)
    IN  strip(join_lines(lines)) \o <<"\n">>

describe_universe(uu) ==
    LET name == IF field_str(uu, <<"n", "a", "m", "e">>) # <<>>
                THEN field_str(uu, <<"n", "a", "m", "e">>)
                ELSE <<"Universo sem nome">>
        bits == SelectSeq([i \in 1..Len(meta_keys) |->
                              IF /\ has_key(uu, meta_keys[i])
                                 /\ _value_to_text(dict_get(uu, meta_keys[i])) # <<>>
                              THEN field_line(_title(_klabel(meta_keys[i])),
                                              _value_to_text(dict_get(uu, meta_keys[i])))
                              ELSE <<>>],
                          NonEmpty)
        lines == << <<"## UNIVERSO ATIVO">>, <<>>, <<"**">> \o name \o <<"**">>, <<>> >>
                 \o (IF bits # <<>>
                     THEN << <<"### Metadados">> >> \o bits \o << <<>> >>
                     ELSE <<>>)
    IN  strip(join_lines(lines)) \o <<"\n">>

\* the lines of a list of the contract: a heading, the strings that are not blank
contract_list_lines(heading, val) ==
    IF val.t = "list" /\ val.v # <<>>
    THEN << <<heading>> >>
         \o SelectSeq([i \in 1..Len(val.v) |->
                          IF val.v[i].t = "str" /\ strip(val.v[i].v) # <<>>
                          THEN item_line(strip(val.v[i].v))
                          ELSE <<>>],
                      NonEmpty)
         \o << <<>> >>
    ELSE <<>>

\* the lines of execution_requirements
requirement_lines(req) ==
    IF req.t = "dict" /\ req.v # <<>>
    THEN << <<"**Requisitos minimos de execucao:**">> >>
         \o SelectSeq([i \in 1..Len(req.v) |->
                          IF _value_to_text(req.v[i].v) # <<>>
                          THEN field_line(_klabel(req.v[i].k), _value_to_text(req.v[i].v))
                          ELSE <<>>],
                      NonEmpty)
         \o << <<>> >>
    ELSE <<>>

\* the lines of the variations of the cluster
variation_lines(vars_) ==
    IF vars_.t = "dict" /\ vars_.v # <<>>
    THEN << <<"**Variacoes possiveis (schema):**">> >>
         \o SelectSeq([i \in 1..Len(vars_.v) |->
                          IF vars_.v[i].k = <<>> THEN <<>>
                          ELSE IF /\ vars_.v[i].v.t = "dict"
                                  /\ vars_.v[i].v.v # <<>>
                                  /\ _value_to_text(vars_.v[i].v) # <<>>
                          THEN field_line(vars_.v[i].k, _value_to_text(vars_.v[i].v))
                          ELSE item_line(vars_.v[i].k)],
                      NonEmpty)
         \o << <<>> >>
    ELSE <<>>

\* the lines of the cluster of a space
cluster_lines(c, var) ==
    LET cname == IF field_str(c, <<"n", "a", "m", "e">>) # <<>>
                 THEN field_str(c, <<"n", "a", "m", "e">>)
                 ELSE field_str(c, <<"c", "l", "u", "s", "t", "e", "r", "_", "i", "d">>)
        cdesc == field_str(c, <<"d", "e", "s", "c", "r", "i", "p", "t", "i", "o", "n">>)
        contract == dict_get(c, <<"c", "o", "n", "t", "r", "a", "c", "t">>)
    IN  << <<"### Cluster (contrato transversal)">>,
           <<"-", " ", "Nome", ":", " ">> \o cname >>
        \o (IF cdesc # <<>>
            THEN << <<"-", " ", "Descricao", ":", " ">> \o cdesc >>
            ELSE <<>>)
        \o (IF var # None
            THEN << <<"-", " ", "Variacao inferida", ":", " ", var[1], " ",
                      "(pela quantidade de ativos)">> >>
            ELSE <<>>)
        \o << <<>> >>
        \o (IF contract.t = "dict"
            THEN contract_list_lines("**Principios do cluster (sempre presentes):**",
                                     dict_get(contract, <<"c", "o", "r", "e", "_", "p", "r", "i", "n", "c", "i", "p", "l", "e", "s">>))
                 \o contract_list_lines("**Proibido no cluster:**",
                                        dict_get(contract, <<"f", "o", "r", "b", "i", "d", "d", "e", "n", "_", "o", "u", "t", "c", "o", "m", "e", "s">>))
                 \o requirement_lines(dict_get(contract, <<"e", "x", "e", "c", "u", "t", "i", "o", "n", "_", "r", "e", "q", "u", "i", "r", "e", "m", "e", "n", "t", "s">>))
            ELSE <<>>)
        \o variation_lines(dict_get(c, <<"v", "a", "r", "i", "a", "t", "i", "o", "n", "s">>))

\* bullets: the preferred keys of the space, in the order of the list
space_bullets(space) ==
    SelectSeq([i \in 1..Len(preferred) |->
                  IF /\ has_key(space, preferred[i])
                     /\ preferred[i] \notin skip
                     /\ _value_to_text(dict_get(space, preferred[i])) # <<>>
                  THEN field_line(_title(_klabel(preferred[i])),
                                  _value_to_text(dict_get(space, preferred[i])))
                  ELSE <<>>],
              NonEmpty)

\* extras: the other keys of the space, in the order of the space
space_extras(space) ==
    SelectSeq([i \in 1..Len(space.v) |->
                  IF \/ space.v[i].k \in skip
                     \/ InSeq(space.v[i].k, preferred)
                     \/ _value_to_text(space.v[i].v) = <<>>
                  THEN <<>>
                  ELSE field_line(_title(_klabel(space.v[i].k)),
                                  _value_to_text(space.v[i].v))],
              NonEmpty)

describe_space(space, cl, var) ==
    LET name == IF field_str(space, <<"n", "a", "m", "e">>) # <<>>
                THEN field_str(space, <<"n", "a", "m", "e">>)
                ELSE <<"Espaco sem nome">>
        lines == << <<"## ESPACO ATIVO">>, <<>>, <<"**">> \o name \o <<"**">>, <<>> >>
                 \o (IF cl # None /\ cl[1].v # <<>>
                     THEN cluster_lines(cl[1], var)
                     ELSE <<>>)
                 \o (IF space_bullets(space) # <<>> \/ space_extras(space) # <<>>
                     THEN << <<"### Parametros do espaco (base para execucao)">> >>
                          \o space_bullets(space) \o space_extras(space) \o << <<>> >>
                     ELSE <<>>)
    IN  strip(join_lines(lines)) \o <<"\n">>

\* isinstance(x, int): a bool is an int
is_int(x) == x.t \in {"int", "bool"}

describe_asset(a) ==
    LET nome == field_str(a, <<"n", "o", "m", "e">>)
        sobrenome == field_str(a, <<"s", "o", "b", "r", "e", "n", "o", "m", "e">>)
        full == IF strip(nome \o <<" ">> \o sobrenome) # <<>>
                THEN strip(nome \o <<" ">> \o sobrenome)
                ELSE <<"Ativo sem nome">>
        nasc == field_str(a, <<"d", "a", "t", "a", "_", "n", "a", "s", "c", "i", "m", "e", "n", "t", "o">>)
        signo == field_str(a, <<"s", "i", "g", "n", "o">>)
        altura == dict_get(a, <<"a", "l", "t", "u", "r", "a", "_", "c", "m">>)
        peso == dict_get(a, <<"p", "e", "s", "o", "_", "k", "g">>)
        idade == dict_get(a, <<"i", "d", "a", "d", "e">>)
        cabelo == field_str(a, <<"c", "o", "r", "_", "c", "a", "b", "e", "l", "o">>)
        corte == field_str(a, <<"c", "o", "r", "t", "e", "_", "p", "e", "n", "t", "e", "a", "d", "o">>)
        pele == field_str(a, <<"c", "o", "r", "_", "p", "e", "l", "e">>)
        olhos == field_str(a, <<"c", "o", "r", "_", "o", "l", "h", "o", "s">>)
        estrutura == field_str(a, <<"e", "s", "t", "r", "u", "t", "u", "r", "a", "_", "c", "o", "r", "p", "o">>)
        tecido == dict_get(a, <<"t", "e", "c", "i", "d", "o", "_", "a", "d", "i", "p", "o", "s", "o">>)
        musc == dict_get(a, <<"m", "u", "s", "c", "u", "l", "a", "t", "u", "r", "a">>)
        personalidade == field_str(a, <<"p", "e", "r", "s", "o", "n", "a", "l", "i", "d", "a", "d", "e">>)
        asc == field_str(a, <<"a", "s", "c", "e", "n", "d", "e", "n", "t", "e">>)
        asc_conf == dict_get(a, <<"a", "s", "c", "e", "n", "d", "e", "n", "t", "e", "_", "c", "o", "n", "f", "i", "a", "n", "c", "a">>)
        dados == SelectSeq(
            << IF nasc # <<>> THEN <<"nascimento", " ">> \o nasc ELSE <<>>,
               IF is_int(idade) THEN <<"idade", " ">> \o py_str(idade) ELSE <<>>,
               IF signo # <<>> THEN <<"signo", " ">> \o signo ELSE <<>>,
               IF is_int(altura)
               THEN <<"altura", " ">> \o py_str(altura) \o <<" ", "cm">> ELSE <<>>,
               IF is_int(peso) \/ peso.t = "float"
               THEN <<"peso", " ">> \o py_str(peso) \o <<" ", "kg">> ELSE <<>> >>,
            NonEmpty)
        apar == SelectSeq(
            << IF cabelo # <<>> THEN <<"cabelo", " ">> \o cabelo ELSE <<>>,
               IF corte # <<>> THEN <<"corte", " ">> \o corte ELSE <<>>,
               IF pele # <<>> THEN <<"pele", " ">> \o pele ELSE <<>>,
               IF olhos # <<>> THEN <<"olhos", " ">> \o olhos ELSE <<>> >>,
            NonEmpty)
        corpo == SelectSeq(
            << estrutura,
               IF is_int(tecido)
               THEN <<"tecido adiposo", " ">> \o py_str(tecido) \o <<"/100">> ELSE <<>>,
               IF is_int(musc)
               THEN <<"musculatura", " ">> \o py_str(musc) \o <<"/100">> ELSE <<>> >>,
            NonEmpty)
        pers == SelectSeq(
            << personalidade,
               IF asc = <<>> THEN <<>>
               ELSE IF is_int(asc_conf)
               THEN <<"ascendente", " ">> \o asc
                    \o <<" ", "(confianca", " ">> \o py_str(asc_conf) \o <<"/100)">>
               ELSE <<"ascendente", " ">> \o asc >>,
            NonEmpty)
        bits == (IF dados # <<>>
                 THEN << <<"-", " ", "Dados", ":", " ">> \o join_with(<<";", " ">>, dados) >>
                 ELSE <<>>)
                \o (IF apar # <<>>
                    THEN << <<"-", " ", "Aparencia", ":", " ">>
                            \o join_with(<<";", " ">>, apar) >>
                    ELSE <<>>)
                \o (IF corpo # <<>>
                    THEN << <<"-", " ", "Corpo", ":", " ">>
                            \o join_with(<<" ", "--", " ">>, corpo) >>
                    ELSE <<>>)
                \o (IF pers # <<>>
                    THEN << <<"-", " ", "Personalidade", ":", " ">>
                            \o join_with(<<" ", "|", " ">>, pers) >>
                    ELSE <<>>)
                \o << <<"-", " ", "Vestuario", ":", " ",
                        "marcas premium e bonitas, escolhidas livremente conforme o contexto (o figurino responde ao ambiente).">> >>
    IN  <<"-", " ", "**">> \o full \o <<"**", "\n">> \o join_lines(bits)

render_assets_block(selected) ==
    join_lines(<< <<"## ATIVOS PRESENTES">>, <<>> >>
               \o [i \in 1..Len(selected) |-> describe_asset(selected[i])]
               \o << <<>> >>)

render_direction_block ==
    join_lines(
        << <<"## DIRECAO CRIATIVA (liberdade do Gemini)">>,
           <<>>,
           <<"-", " ", "Use as informacoes como base e expanda com criatividade, sem travar em formato.">>,
           <<"-", " ", "Voce pode criar espacos, detalhes e dinamica social quando necessario para o mundo funcionar.">>,
           <<"-", " ", "Nao liste IDs/codigos no texto. Trate tudo como descricao humana e visual.">>,
           <<"-", " ", "Continuidade pode ser local ao chat; um novo prompt pode redefinir o setup.">>,
           <<"-", " ", "A pausa e o silencio tambem sao conteudo.">>,
           <<>> >>)

\* "\n".join([title, "", block, ...]).strip() + "\n"
prompt_text(title, blocks) ==
    strip(join_lines(<< <<title>>, <<>> >> \o blocks)) \o <<"\n">>

\* the text of the prompt of each mode
compose_text(m, uu, ss, cl, var, selected) ==
    CASE m = "universe_only" ->
            prompt_text("MATRIX -- PROMPT GERADOR (UNIVERSO)",
                        << describe_universe(uu[1]), render_direction_block >>)
      [] m = "space_only" ->
            prompt_text("MATRIX -- PROMPT GERADOR (ESPACO)",
                        << describe_space(ss[1], cl, var), render_direction_block >>)
      [] m = "assets_only" ->
            prompt_text("MATRIX -- PROMPT GERADOR (ATIVOS)",
                        << render_assets_block(selected), render_direction_block >>)
      [] m = "universe_assets" ->
            prompt_text("MATRIX -- PROMPT GERADOR (UNIVERSO + ATIVOS)",
                        << describe_universe(uu[1]), render_assets_block(selected),
                           render_direction_block >>)
      [] m = "space_assets" ->
            prompt_text("MATRIX -- PROMPT GERADOR (ESPACO + ATIVOS)",
                        << describe_space(ss[1], cl, var), render_assets_block(selected),
                           render_direction_block >>)

(***************************************************************************)
(* The records of the JSON files as the resolvers read them                *)
(***************************************************************************)
\* str(d.get(key, "")) when the key is there
field_opt(d, key) == IF has_key(d, key) THEN Some(py_str(dict_get(d, key))) ELSE None

space_view(space) ==
    LET binding == dict_get(space, <<"c", "l", "u", "s", "t", "e", "r", "_", "b", "i", "n", "d", "i", "n", "g">>)
    IN  [id |-> field_opt(space, <<"i", "d">>),
         name |-> field_opt(space, <<"n", "a", "m", "e">>),
         cluster_binding |->
            IF binding.t = "dict"
            THEN Some([cluster_id |-> field_opt(binding, <<"c", "l", "u", "s", "t", "e", "r", "_", "i", "d">>),
                       inherits_contract |->
                           py_bool(dict_get(binding, <<"i", "n", "h", "e", "r", "i", "t", "s", "_", "c", "o", "n", "t", "r", "a", "c", "t">>)),
                       requires_cluster_validation |->
                           py_bool(dict_get(binding, <<"r", "e", "q", "u", "i", "r", "e", "s", "_", "c", "l", "u", "s", "t", "e", "r", "_", "v", "a", "l", "i", "d", "a", "t", "i", "o", "n">>))])
            ELSE None]

cluster_view(c) ==
    [cluster_id |-> field_opt(c, <<"c", "l", "u", "s", "t", "e", "r", "_", "i", "d">>),
     name |-> field_opt(c, <<"n", "a", "m", "e">>),
     variations |-> IF has_key(c, <<"v", "a", "r", "i", "a", "t", "i", "o", "n", "s">>) THEN Some(<<"schema">>) ELSE None]

\* attach_cluster_if_needed on the records of the file: the cluster returned
\* is the first record of the list with the cluster_id of the binding
attach_cluster_json(space, clusterList, count) ==
    LET views == [i \in 1..Len(clusterList) |-> cluster_view(clusterList[i])]
        r == attach_cluster_if_needed(space_view(space), views, count)
    IN  [fatal |-> r.fatal,
         cluster |-> IF r.cluster = None THEN None
                     ELSE Some(clusterList[Min({i \in 1..Len(views) :
                                                   views[i] = r.cluster[1]})]),
         variation |-> r.variation]

(***************************************************************************)
(* The composition of a prompt: the branch of main for the mode, the       *)
(* attachment of the cluster, the composer, the file                       *)
(***************************************************************************)
\* a universe with metadata, metadata of no text, and two fields that are no metadata
RenderUniverse1 ==
    JDict(<<[k |-> <<"i", "d">>, v |-> JStr(<<"U", "1">>)],
       [k |-> <<"p", "o", "p", "u", "l", "a", "t", "i", "o", "n">>, v |-> JInt(9)],
       [k |-> <<"n", "a", "m", "e">>, v |-> JStr(<<" ", "U", "a", " ">>)],
       [k |-> <<"t", "o", "n", "e">>, v |-> JStr(<<"d", "a", "r", "k">>)],
       [k |-> <<"n", "o", "t", "e", "s">>, v |-> JNull],
       [k |-> <<"r", "u", "l", "e", "s">>, v |-> JList(<<JStr(<<" ">>)>>)],
       [k |-> <<"f", "o", "u", "n", "d", "e", "d", "_", "b", "y">>, v |-> JStr(<<"K", "x">>)]>>)

\* a universe with no name
RenderUniverse2 ==
    JDict(<<[k |-> <<"i", "d">>, v |-> JStr(<<"U", "2">>)],
       [k |-> <<"y", "e", "a", "r">>, v |-> JInt(1999)]>>)

\* a space that requires its cluster, with preferred fields and others, some of no text
RenderSpace1 ==
    JDict(<<[k |-> <<"i", "d">>, v |-> JStr(<<"S", "1">>)],
       [k |-> <<"n", "a", "m", "e">>, v |-> JStr(<<"S", "a">>)],
       [k |-> <<"f", "l", "o", "o", "r", "_", "p", "l", "a", "n">>, v |-> JStr(<<"o", "p", "e", "n">>)],
       [k |-> <<"c", "l", "u", "s", "t", "e", "r", "_", "b", "i", "n", "d", "i", "n", "g">>, v |-> JDict(<<[k |-> <<"c", "l", "u", "s", "t", "e", "r", "_", "i", "d">>, v |-> JStr(<<"C", "1">>)],
           [k |-> <<"i", "n", "h", "e", "r", "i", "t", "s", "_", "c", "o", "n", "t", "r", "a", "c", "t">>, v |-> JBool(TRUE)],
           [k |-> <<"r", "e", "q", "u", "i", "r", "e", "s", "_", "c", "l", "u", "s", "t", "e", "r", "_", "v", "a", "l", "i", "d", "a", "t", "i", "o", "n">>, v |-> JBool(TRUE)]>>)],
       [k |-> <<"t", "y", "p", "e">>, v |-> JStr(<<"g", "y", "m">>)],
       [k |-> <<"m", "o", "d", "e">>, v |-> JStr(<<" ">>)],
       [k |-> <<"c", "a", "m", "e", "r", "a", "_", "a", "n", "g", "l", "e">>, v |-> JDict(<<[k |-> <<"t", "i", "l", "t">>, v |-> JStr(<<"l", "o", "w">>)],
           [k |-> <<"p", "a", "n">>, v |-> JNull]>>)],
       [k |-> <<"p", "r", "o", "p", "s">>, v |-> JList(<<>>)],
       [k |-> <<"o", "b", "j", "e", "c", "t", "s">>, v |-> JList(<<JStr(<<"m", "a", "t">>), JInt(2)>>)]>>)

\* a space whose cluster is not required
RenderSpace2 ==
    JDict(<<[k |-> <<"i", "d">>, v |-> JStr(<<"S", "2">>)],
       [k |-> <<"c", "l", "u", "s", "t", "e", "r", "_", "b", "i", "n", "d", "i", "n", "g">>, v |-> JDict(<<[k |-> <<"c", "l", "u", "s", "t", "e", "r", "_", "i", "d">>, v |-> JStr(<<"C", "2">>)],
           [k |-> <<"i", "n", "h", "e", "r", "i", "t", "s", "_", "c", "o", "n", "t", "r", "a", "c", "t">>, v |-> JBool(TRUE)]>>)]>>)

\* a space bound to no cluster
RenderSpace3 ==
    JDict(<<[k |-> <<"n", "a", "m", "e">>, v |-> JStr(<<"S", "b">>)],
       [k |-> <<"d", "e", "s", "c", "r", "i", "p", "t", "i", "o", "n">>, v |-> JStr(<<"h", "a", "l", "l">>)]>>)

RenderCluster1 ==
    JDict(<<[k |-> <<"c", "l", "u", "s", "t", "e", "r", "_", "i", "d">>, v |-> JStr(<<"c", "1">>)],
       [k |-> <<"n", "a", "m", "e">>, v |-> JStr(<<"C", "n">>)],
       [k |-> <<"d", "e", "s", "c", "r", "i", "p", "t", "i", "o", "n">>, v |-> JStr(<<"p", "a", "i", "r", " ", "w", "o", "r", "k">>)],
       [k |-> <<"c", "o", "n", "t", "r", "a", "c", "t">>, v |-> JDict(<<[k |-> <<"c", "o", "r", "e", "_", "p", "r", "i", "n", "c", "i", "p", "l", "e", "s">>, v |-> JList(<<JStr(<<"t", "r", "u", "s", "t">>), JStr(<<" ">>)>>)],
           [k |-> <<"f", "o", "r", "b", "i", "d", "d", "e", "n", "_", "o", "u", "t", "c", "o", "m", "e", "s">>, v |-> JList(<<>>)],
           [k |-> <<"e", "x", "e", "c", "u", "t", "i", "o", "n", "_", "r", "e", "q", "u", "i", "r", "e", "m", "e", "n", "t", "s">>, v |-> JDict(<<[k |-> <<"m", "i", "n", "_", "t", "i", "m", "e">>, v |-> JInt(5)],
               [k |-> <<"w", "a", "r", "m", "_", "u", "p">>, v |-> JNull]>>)]>>)],
       [k |-> <<"v", "a", "r", "i", "a", "t", "i", "o", "n", "s">>, v |-> JDict(<<[k |-> <<"s", "o", "l", "o">>, v |-> JDict(<<[k |-> <<"f", "o", "c", "u", "s">>, v |-> JStr(<<"o", "n", "e">>)]>>)],
           [k |-> <<"d", "u", "o">>, v |-> JDict(<<>>)]>>)]>>)

\* a cluster with no name
RenderCluster2 ==
    JDict(<<[k |-> <<"c", "l", "u", "s", "t", "e", "r", "_", "i", "d">>, v |-> JStr(<<" ", "C", "2">>)],
       [k |-> <<"d", "e", "s", "c", "r", "i", "p", "t", "i", "o", "n">>, v |-> JStr(<<"l", "o", "o", "s", "e">>)]>>)

\* a cluster with a blank name
RenderCluster3 ==
    JDict(<<[k |-> <<"c", "l", "u", "s", "t", "e", "r", "_", "i", "d">>, v |-> JStr(<<"C", "2">>)],
       [k |-> <<"n", "a", "m", "e">>, v |-> JStr(<<" ">>)]>>)

\* an asset with a field the buckets do not have
RenderAsset1 ==
    JDict(<<[k |-> <<"a", "s", "s", "e", "t", "_", "i", "d">>, v |-> JStr(<<"A", "1">>)],
       [k |-> <<"n", "o", "m", "e">>, v |-> JStr(<<"A", "n", "a">>)],
       [k |-> <<"s", "o", "b", "r", "e", "n", "o", "m", "e">>, v |-> JStr(<<"B", "o">>)],
       [k |-> <<"i", "d", "a", "d", "e">>, v |-> JInt(30)],
       [k |-> <<"a", "l", "t", "u", "r", "a", "_", "c", "m">>, v |-> JInt(170)],
       [k |-> <<"p", "e", "s", "o", "_", "k", "g">>, v |-> JFloat(<<"6", "0", ".", "5">>)],
       [k |-> <<"s", "i", "g", "n", "o">>, v |-> JStr(<<"l", "e", "o">>)],
       [k |-> <<"c", "o", "r", "_", "c", "a", "b", "e", "l", "o">>, v |-> JStr(<<"r", "e", "d">>)],
       [k |-> <<"a", "s", "c", "e", "n", "d", "e", "n", "t", "e">>, v |-> JStr(<<"a", "r", "i">>)],
       [k |-> <<"a", "s", "c", "e", "n", "d", "e", "n", "t", "e", "_", "c", "o", "n", "f", "i", "a", "n", "c", "a">>, v |-> JInt(80)],
       [k |-> <<"n", "i", "c", "k", "n", "a", "m", "e">>, v |-> JStr(<<"N", "n">>)]>>)

\* an asset with an asset_id and a null field
RenderAsset2 ==
    JDict(<<[k |-> <<"a", "s", "s", "e", "t", "_", "i", "d">>, v |-> JStr(<<"A", "2">>)],
       [k |-> <<"s", "i", "g", "n", "o">>, v |-> JNull]>>)

RenderAsset3 ==
    JDict(<<[k |-> <<"n", "o", "m", "e">>, v |-> JStr(<<"B", "i", "a">>)],
       [k |-> <<"d", "a", "t", "a", "_", "n", "a", "s", "c", "i", "m", "e", "n", "t", "o">>, v |-> JStr(<<"2", "0", "0", "0">>)],
       [k |-> <<"e", "s", "t", "r", "u", "t", "u", "r", "a", "_", "c", "o", "r", "p", "o">>, v |-> JStr(<<"s", "l", "i", "m">>)],
       [k |-> <<"t", "e", "c", "i", "d", "o", "_", "a", "d", "i", "p", "o", "s", "o">>, v |-> JInt(20)],
       [k |-> <<"m", "u", "s", "c", "u", "l", "a", "t", "u", "r", "a">>, v |-> JBool(TRUE)],
       [k |-> <<"p", "e", "r", "s", "o", "n", "a", "l", "i", "d", "a", "d", "e">>, v |-> JStr(<<"c", "a", "l", "m">>)],
       [k |-> <<"c", "o", "r", "_", "p", "e", "l", "e">>, v |-> JStr(<<" ">>)],
       [k |-> <<"a", "s", "c", "e", "n", "d", "e", "n", "t", "e">>, v |-> JStr(<<"l", "e", "o">>)]>>)

RenderUniverses == { RenderUniverse1, RenderUniverse2 }

RenderSpaces == { RenderSpace1, RenderSpace2, RenderSpace3 }

RenderClusterLists ==
    { <<>>, <<RenderCluster1>>, <<RenderCluster2, RenderCluster1>>,
      <<RenderCluster1, RenderCluster3>> }

RenderAssetLists ==
    { <<RenderAsset1>>, <<RenderAsset2, RenderAsset3>>, <<RenderAsset3, RenderAsset1>> }

\* what detect_mode returns in the five modes that compose a prompt
InitRender ==
    /\ pc = "dispatch"
    /\ mode \in {"universe_only", "space_only", "assets_only", "universe_assets",
                 "space_assets"}
    /\ clusters \in RenderClusterLists
    /\ IF mode \in {"universe_only", "universe_assets"}
       THEN u \in {Some(x) : x \in RenderUniverses}
       ELSE u = None
    /\ IF mode \in {"space_only", "space_assets"}
       THEN s \in {Some(x) : x \in RenderSpaces}
       ELSE s = None
    /\ IF mode \in {"assets_only", "universe_assets", "space_assets"}
       THEN selected_assets \in RenderAssetLists
       ELSE selected_assets = <<>>
    /\ argv = <<>>
    /\ universes = <<>>
    /\ spaces = <<>>
    /\ assets = <<>>
    /\ tokens = <<>>
    /\ idx = 1
    /\ remaining = <<>>
    /\ assets_count = 0
    /\ cluster = None
    /\ variation = None
    /\ prompt = None
    /\ output = None
    /\ warnings = <<>>
    /\ exit_code = "running"
    /\ raw = None
    /\ kind = "none"
    /\ result = None

\* the branch of main for a universe or for assets alone: compose and write
ComposeDirect ==
    /\ pc = "dispatch"
    /\ mode \in {"universe_only", "assets_only", "universe_assets"}
    /\ prompt' = Some(compose_text(mode, u, s, None, None, selected_assets))
    /\ output' = prompt'
    /\ exit_code' = "ok"
    /\ pc' = "done"
    /\ UNCHANGED <<raw, kind, result>>
    /\ UNCHANGED <<argv, universes, spaces, clusters, assets, tokens, idx, u, s,
                   remaining, selected_assets, mode, assets_count, cluster,
                   variation, warnings>>

\* the branch of main for a space: attach the cluster, then compose and write
ComposeSpaceText ==
    /\ pc = "dispatch"
    /\ mode \in {"space_only", "space_assets"}
    /\ assets_count' = Len(selected_assets)
    /\ LET r == attach_cluster_json(s[1], clusters, Len(selected_assets))
       IN  IF r.fatal
           THEN /\ exit_code' = "missing_cluster"
                /\ pc' = "exit"
                /\ UNCHANGED <<cluster, variation, prompt, output>>
           ELSE /\ cluster' = r.cluster
                /\ variation' = r.variation
                /\ prompt' = Some(compose_text(mode, u, s, r.cluster, r.variation,
                                               selected_assets))
                /\ output' = prompt'
                /\ exit_code' = "ok"
                /\ pc' = "done"
    /\ UNCHANGED <<raw, kind, result>>
    /\ UNCHANGED <<argv, universes, spaces, clusters, assets, tokens, idx, u, s,
                   remaining, selected_assets, mode, warnings>>

NextRender == ComposeDirect \/ ComposeSpaceText

SpecRender == InitRender /\ [][NextRender]_vars

Composed == pc = "done" /\ prompt # None

\* the lines of a text: what is between two line ends
SplitLines(text) ==
    LET ends == {0, Len(text) + 1} \cup {i \in 1..Len(text) : text[i] = "\n"}
        End(k) == CHOOSE e \in ends : Cardinality({f \in ends : f <= e}) = k
    IN  [k \in 1..(Cardinality(ends) - 1) |-> SubSeq(text, End(k) + 1, End(k + 1) - 1)]

PromptLines == SplitLines(prompt[1])

\* the text holds the characters of word, one after the other
Contained(word, text) ==
    /\ word # <<>>
    /\ \E i \in 1..(Len(text) - Len(word) + 1) : SubSeq(text, i, i + Len(word) - 1) = word

\* the entities the prompt is composed of
RenderedUniverses == IF u = None THEN {} ELSE {u[1]}

RenderedSpaces == IF s = None THEN {} ELSE {s[1]}

RenderedClusters == IF cluster = None THEN {} ELSE {cluster[1]}

RenderedAssets == {selected_assets[i] : i \in 1..Len(selected_assets)}

\* the text of a field that is a string, if it is not blank
TextsOf(d, key) ==
    {strip(d.v[i].v.v) : i \in {j \in 1..Len(d.v) : d.v[j].k = key /\ d.v[j].v.t = "str"}}
    \ {<<>>}

Bindings ==
    UNION { {e.v[i].v : i \in {j \in 1..Len(e.v) :
                                   e.v[j].k = <<"c", "l", "u", "s", "t", "e", "r", "_", "b", "i", "n", "d", "i", "n", "g">> /\ e.v[j].v.t = "dict"}} :
              e \in RenderedSpaces }

Identifiers ==
    UNION ( {TextsOf(e, <<"i", "d">>) : e \in RenderedUniverses \cup RenderedSpaces}
            \cup {TextsOf(b, <<"c", "l", "u", "s", "t", "e", "r", "_", "i", "d">>) : b \in Bindings}
            \cup {TextsOf(c, <<"c", "l", "u", "s", "t", "e", "r", "_", "i", "d">>) : c \in RenderedClusters}
            \cup {TextsOf(a, <<"a", "s", "s", "e", "t", "_", "i", "d">>) : a \in RenderedAssets} )

(***************************************************************************)
(* C14: in every mode the composed prompt holds no id of the universe or   *)
(* of the space, no cluster_id of the binding of the space or of the       *)
(* cluster, and no asset_id, whether the cluster has a name or not.        *)
(***************************************************************************)
C14_NoIdentifierInPrompt ==
    Composed => \A x \in Identifiers : ~Contained(x, prompt[1])

\* the cluster has a name that is not blank
ClusterNamed ==
    \A c \in RenderedClusters :
        \E i \in 1..Len(c.v) :
            c.v[i].k = <<"n", "a", "m", "e">> /\ c.v[i].v.t = "str" /\ strip(c.v[i].v.v) # <<>>

\* no identifier is in the prompt of a space whose cluster has a name
NoIdentifierWhenClusterNamed ==
    Composed /\ ClusterNamed => \A x \in Identifiers : ~Contained(x, prompt[1])

\* the cluster_id is written as the name of a cluster that has none
C14_ClusterIdAsName ==
    /\ Composed
    /\ cluster = Some(RenderCluster2)
    /\ \E i \in 1..Len(PromptLines) :
           PromptLines[i] = <<"-", " ", "Nome", ":", " ", "C", "2">>

\* a line that ends with a colon and blanks
EmptyValueLine(line) ==
    \E i \in 1..Len(line) :
        line[i] = ":" /\ \A j \in (i + 1)..Len(line) : IsSpace(line[j])

\* null, a blank string, a list or mapping whose elements all serialize to ""
EmptyValue(v) ==
    \/ v.t = "null"
    \/ v.t = "str" /\ \A i \in 1..Len(v.v) : IsSpace(v.v[i])
    \/ v.t = "list" /\ \A i \in 1..Len(v.v) : _value_to_text(v.v[i]) = <<>>
    \/ v.t = "dict" /\ \A i \in 1..Len(v.v) : _value_to_text(v.v[i].v) = <<>>

\* the values of the fields of the entities of the prompt
RenderedValues ==
    UNION { {e.v[i].v : i \in 1..Len(e.v)} :
              e \in RenderedUniverses \cup RenderedSpaces \cup RenderedClusters
                    \cup RenderedAssets }

(***************************************************************************)
(* C15: _value_to_text gives "" for null, for a blank string, for an empty *)
(* list or mapping and for a list or mapping whose elements all serialize  *)
(* to "", and no line of a composed prompt is a label with an empty        *)
(* value.                                                                  *)
(***************************************************************************)
C15_NoEmptyFieldLine ==
    /\ \A v \in ValuePool \cup RenderedValues : EmptyValue(v) => _value_to_text(v) = <<>>
    /\ Composed => \A i \in 1..Len(PromptLines) : ~EmptyValueLine(PromptLines[i])

\* a prompt of entities with fields of no text: metadata of a universe, or a
\* preferred field, another field and a requirement of a space and its cluster
C15_Witness ==
    /\ Composed
    /\ \/ u = Some(RenderUniverse1)
       \/ s = Some(RenderSpace1) /\ cluster = Some(RenderCluster1)
    /\ \E v \in RenderedValues : EmptyValue(v)
    /\ selected_assets # <<>>

UniverseAllowed == meta_keys \o << <<"n", "a", "m", "e">> >>

AssetAllowed ==
    << <<"n", "o", "m", "e">>,
       <<"s", "o", "b", "r", "e", "n", "o", "m", "e">>,
       <<"d", "a", "t", "a", "_", "n", "a", "s", "c", "i", "m", "e", "n", "t", "o">>,
       <<"s", "i", "g", "n", "o">>,
       <<"a", "l", "t", "u", "r", "a", "_", "c", "m">>,
       <<"p", "e", "s", "o", "_", "k", "g">>,
       <<"i", "d", "a", "d", "e">>,
       <<"c", "o", "r", "_", "c", "a", "b", "e", "l", "o">>,
       <<"c", "o", "r", "t", "e", "_", "p", "e", "n", "t", "e", "a", "d", "o">>,
       <<"c", "o", "r", "_", "p", "e", "l", "e">>,
       <<"c", "o", "r", "_", "o", "l", "h", "o", "s">>,
       <<"e", "s", "t", "r", "u", "t", "u", "r", "a", "_", "c", "o", "r", "p", "o">>,
       <<"t", "e", "c", "i", "d", "o", "_", "a", "d", "i", "p", "o", "s", "o">>,
       <<"m", "u", "s", "c", "u", "l", "a", "t", "u", "r", "a">>,
       <<"p", "e", "r", "s", "o", "n", "a", "l", "i", "d", "a", "d", "e">>,
       <<"a", "s", "c", "e", "n", "d", "e", "n", "t", "e">>,
       <<"a", "s", "c", "e", "n", "d", "e", "n", "t", "e", "_", "c", "o", "n", "f", "i", "a", "n", "c", "a">> >>

Excluded == skip \cup { <<"a", "s", "s", "e", "t", "_", "i", "d">> }

\* the fields of a record outside the allow-list and the exclusion set whose
\* value has a text, in the order of the record
ExtraFields(e, allow) ==
    SubSeqAt(e.v, {i \in 1..Len(e.v) :
                      /\ ~InSeq(e.v[i].k, allow)
                      /\ e.v[i].k \notin Excluded
                      /\ _value_to_text(e.v[i].v) # <<>>})

\* the line of a field: its humanized key, first letter capital, and its text
LineOf(p) == <<"-", " ">> \o _title(_klabel(p.k)) \o <<":", " ">> \o _value_to_text(p.v)

Positions(line) == {i \in 1..Len(PromptLines) : PromptLines[i] = line}

\* the lines of the allow-listed fields that the prompt has
AllowedPositions(e, allow) ==
    UNION {Positions(LineOf(e.v[i])) : i \in {j \in 1..Len(e.v) : InSeq(e.v[j].k, allow)}}

\* every extra field has its line, after the allow-listed ones, in key order
Elastic(e, allow) ==
    LET X == ExtraFields(e, allow)
    IN  /\ \A i \in 1..Len(X) : Positions(LineOf(X[i])) # {}
        /\ \A i, j \in 1..Len(X) :
               i < j => Min(Positions(LineOf(X[i]))) < Min(Positions(LineOf(X[j])))
        /\ \A i \in 1..Len(X) : \A q \in AllowedPositions(e, allow) :
               q < Min(Positions(LineOf(X[i])))

(***************************************************************************)
(* C13: for a universe, a space and an asset, every field of the record    *)
(* outside the allow-list and the exclusion set whose value has a text is  *)
(* in the prompt under its humanized key, after the allow-listed fields    *)
(* and in the key order of the record.                                     *)
(***************************************************************************)
C13_Elasticity ==
    Composed =>
        /\ \A e \in RenderedUniverses : Elastic(e, UniverseAllowed)
        /\ \A e \in RenderedSpaces : Elastic(e, preferred)
        /\ \A e \in RenderedAssets : Elastic(e, AssetAllowed)

\* the same for the space alone
SpaceElasticity ==
    Composed => \A e \in RenderedSpaces : Elastic(e, preferred)

\* a universe whose fields population and founded_by are not in the prompt
C13_UniverseFieldsDropped ==
    /\ Composed
    /\ u = Some(RenderUniverse1)
    /\ Len(ExtraFields(RenderUniverse1, UniverseAllowed)) = 2
    /\ \A i \in 1..Len(PromptLines) :
           ~Contained(<<"P", "o", "p", "u", "l", "a", "t", "i", "o", "n">>, PromptLines[i])
           /\ ~Contained(<<"F", "o", "u", "n", "d", "e", "d", " ", "b", "y">>, PromptLines[i])

\* a space whose fields outside the preferred ones are all in the prompt
SpaceFieldsKept ==
    /\ Composed
    /\ s = Some(RenderSpace1)
    /\ Len(ExtraFields(RenderSpace1, preferred)) = 3
    /\ Len(space_bullets(RenderSpace1)) = 2

====
